---- MODULE Spec2Model ----
(***************************************************************************)
(* Model of the sample-pair data model, the corpus parsers, the component   *)
(* factory and the job executor of the unmasking framework                 *)
(* (src/input/formats.py, src/input/interfaces.py,                         *)
(* src/authorship_unmasking/input/interfaces.py, src/job/interfaces.py,    *)
(* src/conf/interfaces.py, src/output/interfaces.py).                      *)
(*                                                                         *)
(* Thirteen specifications share the variables of this module:             *)
(*   SpecClass  the polymorphic equality and the hash of a pair-class enum *)
(*   SpecPair   the construction of one SamplePairImpl and its pair_id     *)
(*   SpecBook   the BookSampleParserIterator driven by next() calls        *)
(*   SpecSampler  one of the two Webis-Buzzfeed samplers iterated to the end *)
(*   SpecPan    the PanParser iterated to the end                          *)
(*   SpecParsers  one of the four corpus parsers iterated to the end         *)
(*   SpecFactory  one call of JobExecutor._configure_instance                *)
(*   SpecOutput   one call of JobExecutor._init_job_output                   *)
(*   SpecBus    handlers subscribed by the executor and one publish() call *)
(*   SpecCorpus one of the four parsers iterated over a corpus directory   *)
(*              that may be missing or hold documents that do not parse    *)
(*   SpecCat    the category sampler over all classes, with documents      *)
(*              that have no main text                                     *)
(*   SpecCatFair  the category sampler with every step weakly fair         *)
(*   SpecLoad   one call of JobExecutor._load_outputs or _load_aggregators *)
(* A specification keeps the variables of the other parts at their idle    *)
(* values.                                                                 *)
(***************************************************************************)
EXTENDS Integers, Sequences, FiniteSets, TLC

VARIABLES
    \* ---- pair-class enumeration (SpecClass) ----
    impl,           \* which of the two enum implementations is compared
    variant,        \* the enum member on the left of ==  (self)
    other,          \* the Python value on the right of == (other)
    eq_result,      \* what self.__eq__(other) returned, "unset" before the call
    hash_result,    \* <<hash(self), hash(other)>>, "unset" before the call
    \* ---- EventBroadcaster ----
    published,      \* the publish() calls made so far, in order
    \* ---- one SamplePairImpl (SpecPair, SpecBook) ----
    pair_pc,        \* position inside SamplePairImpl.__init__
    pair_a,         \* self._a, the texts of side a
    pair_b,         \* self._b, the texts of side b
    pair_cls,       \* self._cls
    pair_id,        \* self._pair_id, None until first read
    pair_event,     \* self._progress_event
    pair_i,         \* index of the text the chunking loop is at
    chunks_a,       \* self._chunks_a
    chunks_b,       \* self._chunks_b
    reads,          \* values the pair_id property returned to callers
    \* ---- one BookSampleParserIterator (SpecBook) ----
    book_pc,        \* position inside __next__, "idle" between calls
    files,          \* self._files, dict file -> author
    authors,        \* self._authors, dict author -> list of files
    iterator1,      \* self._iterator1, as the number of keys of _files consumed
    next1,          \* self._next1
    current_file_contents,  \* self._current_file_contents
    iterator2,      \* self._iterator2, as the number of keys of _authors consumed
    next2,          \* self._next2
    comp_file_names,        \* comp_file_names of the running __next__
    single_text_pairs,      \* self._single_text_pairs
    pair_num,       \* self._pair_num
    progress_event, \* self._progress_event of the iterator
    emitted,        \* the pairs next() has returned, in order
    stops,          \* how many times next() has raised StopIteration
    \* ---- the two Webis-Buzzfeed samplers (SpecSampler) ----
    parser,         \* the class of the parser that is iterated, "none" if none is
    sampler_pc,     \* position inside __iter__ of the running sampler
    dataset,        \* the XML documents of the datasets, in os.listdir order
    samples,        \* self._samples
    texts_by_portals,       \* texts_by_portals of the stratified sampler
    texts_by_class, \* texts_by_class of the category sampler
    processed_comp_classes, \* processed_comp_classes of the category sampler
    cls1_at,        \* position of the outer loop in the keys of the dict
    cls2_at,        \* position of the inner loop in the keys of the dict
    pair_class,     \* pair_class of the combination at hand
    pair_counter,   \* pair_counter
    drawn_a,        \* drawn_a
    drawn_b,        \* drawn_b
    sample_chunks_a,        \* the local chunks_a of __iter__
    sample_chunks_b,        \* the local chunks_b of __iter__
    file_names_a,   \* file_names_a
    file_names_b,   \* file_names_b
    \* ---- PanParser (SpecParsers) ----
    pan_pc,         \* position inside PanParser.__iter__
    truth,          \* the lines of truth.txt, None if there is no such file
    ground_truth,   \* ground_truth, dict case -> bool
    case_dirs,      \* what glob(corpus_path + "/*") returns
    case_at,        \* position of the loop in case_dirs
    \* ---- JobExecutor._configure_instance (SpecFactory) ----
    fac_pc,         \* position inside _configure_instance
    cfg,            \* the descriptor: name, rc_file, parameters
    assert_type,    \* the type the instance must have, None if none is asked
    obj,            \* the instance: its class and the attributes set so far
    rc_contents,    \* what yaml.safe_load returned for the rc file
    param_at,       \* position of the loop over rc_contents or parameters
    assigned,       \* the set_property calls made or prevented so far, in order
    raised,         \* the exception that left the executor's method, NoError if none
    returned,       \* the instance _configure_instance returned, None before
    \* ---- JobExecutor._init_job_output (SpecJob) ----
    job_pc,         \* position inside _init_job_output and the calls after it
    target,         \* what the file system has at output_dir: "absent", "file", "dir"
    job_id,         \* job_id
    output_dir,     \* output_dir once computed
    snapshot,       \* the file conf.save wrote, None before
    \* ---- EventBroadcaster (SpecJob) ----
    subscriptions,  \* the subscribe() calls made so far, in order
    bus_pc,         \* "idle", or "publish" while a publish() call invokes handlers
    bus_queue,      \* the subscriptions the running publish() call still has to serve
    handled,        \* the handler invocations made so far, in order
    aborted,        \* the publish() calls a failing handler ended
    \* ---- the corpus root and the iteration of a parser (SpecCorpus) ----
    corpus_path,    \* what the file system has at corpus_path: "dir" or "absent"
    iter_raised,    \* the exception that left iter() or next(), NoError if none
    \* ---- JobExecutor._load_outputs and _load_aggregators (SpecLoad) ----
    load_pc,        \* position inside the loop of _load_outputs / _load_aggregators
    load_kind,      \* which of the two methods runs: "outputs" or "aggregators"
    load_list,      \* the descriptors of the settings list the loop has taken so far
    outputs,        \* self._outputs
    aggregators     \* self._aggregators

classVars == <<impl, variant, other, eq_result, hash_result>>

pairVars == <<pair_pc, pair_a, pair_b, pair_cls, pair_id, pair_event, pair_i,
              chunks_a, chunks_b, reads>>

bookVars == <<book_pc, files, authors, iterator1, next1, current_file_contents,
              iterator2, next2, comp_file_names, single_text_pairs, pair_num,
              progress_event,
              emitted, stops>>

\* the variables of the book iterator that no other parser uses
bookLocalVars == <<book_pc, files, authors, iterator1, next1, current_file_contents,
                   iterator2, next2, comp_file_names, single_text_pairs,
                   progress_event>>

samplerVars == <<parser, sampler_pc, dataset, samples, texts_by_portals, texts_by_class,
                 processed_comp_classes, cls1_at, cls2_at, pair_class, pair_counter,
                 drawn_a, drawn_b, sample_chunks_a, sample_chunks_b,
                 file_names_a, file_names_b>>

panVars == <<pan_pc, truth, ground_truth, case_dirs, case_at>>

factoryVars == <<fac_pc, cfg, assert_type, obj, rc_contents, param_at, assigned, returned>>

outputVars == <<job_pc, target, job_id, output_dir, snapshot>>

busVars == <<subscriptions, bus_pc, bus_queue, handled, aborted>>

loadVars == <<load_pc, load_kind, load_list, outputs, aggregators>>

jobVars == <<factoryVars, raised, outputVars, busVars, loadVars>>

corpusVars == <<corpus_path, iter_raised>>

vars == <<impl, variant, other, eq_result, hash_result, published,
          pair_pc, pair_a, pair_b, pair_cls, pair_id, pair_event, pair_i,
          chunks_a, chunks_b, reads,
          book_pc, files, authors, iterator1, next1, current_file_contents,
          iterator2, next2, comp_file_names, single_text_pairs, pair_num,
              progress_event,
          emitted, stops,
          parser, sampler_pc, dataset, samples, texts_by_portals, texts_by_class,
          processed_comp_classes, cls1_at, cls2_at, pair_class, pair_counter,
          drawn_a, drawn_b, sample_chunks_a, sample_chunks_b,
          file_names_a, file_names_b,
          pan_pc, truth, ground_truth, case_dirs, case_at,
          fac_pc, cfg, assert_type, obj, rc_contents, param_at, assigned, raised,
          returned,
          job_pc, target, job_id, output_dir, snapshot,
          subscriptions, bus_pc, bus_queue, handled, aborted,
          corpus_path, iter_raised,
          load_pc, load_kind, load_list, outputs, aggregators>>

(***************************************************************************)
(* Strings are sequences of character codes.                               *)
(***************************************************************************)
\* the elements of a list
Range(l) == { l[i] : i \in 1..Len(l) }

\* str.upper() on one character code (ASCII letters)
UpperChar(c) == IF c \in 97..122 THEN c - 32 ELSE c

\* str.lower() on one character code (ASCII letters)
LowerChar(c) == IF c \in 65..90 THEN c + 32 ELSE c

\* str.upper()
Upper(s) == [i \in 1..Len(s) |-> UpperChar(s[i])]

(***************************************************************************)
(* The enum members.  The members are those of                             *)
(* WebisBuzzfeedCatCorpusParser.SingleTextClass with codes -1, 0, 1, 2.    *)
(***************************************************************************)
NameUNSPECIFIED == <<85, 78, 83, 80, 69, 67, 73, 70, 73, 69, 68>>
NameLEFT == <<76, 69, 70, 84>>
NameRIGHT == <<82, 73, 71, 72, 84>>
NameMAINSTREAM == <<77, 65, 73, 78, 83, 84, 82, 69, 65, 77>>

SingleTextClass ==
    { [cls |-> "SingleTextClass", name |-> NameUNSPECIFIED, value |-> -1],
      [cls |-> "SingleTextClass", name |-> NameLEFT, value |-> 0],
      [cls |-> "SingleTextClass", name |-> NameRIGHT, value |-> 1],
      [cls |-> "SingleTextClass", name |-> NameMAINSTREAM, value |-> 2] }

NameDIFFERENT_AUTHORS ==
    <<68, 73, 70, 70, 69, 82, 69, 78, 84, 95, 65, 85, 84, 72, 79, 82, 83>>
NameSAME_AUTHOR == <<83, 65, 77, 69, 95, 65, 85, 84, 72, 79, 82>>

\* BookSampleParser.Class
UNSPECIFIED == [cls |-> "Class", name |-> NameUNSPECIFIED, value |-> -1]
DIFFERENT_AUTHORS == [cls |-> "Class", name |-> NameDIFFERENT_AUTHORS, value |-> 0]
SAME_AUTHOR == [cls |-> "Class", name |-> NameSAME_AUTHOR, value |-> 1]
BookClass == {UNSPECIFIED, DIFFERENT_AUTHORS, SAME_AUTHOR}

\* a member of another enum class than the one compared
ForeignMember == SAME_AUTHOR

\* the two implementations of the enum base class
Impls == {"SamplePair.Class", "SamplePairClass"}

(***************************************************************************)
(* Python values that appear on the right-hand side of ==.                 *)
(***************************************************************************)
\* how many leading characters of a member name an input string has in lower case
MaxLowered == 2

\* largest integer compared with a member
MaxInt == 3

LowerPrefix(s, k) == [i \in 1..Len(s) |-> IF i <= k THEN LowerChar(s[i]) ELSE s[i]]

PyNone == [kind |-> "None"]
PyEnum(m) == [kind |-> "enum", member |-> m]
PyStr(s) == [kind |-> "str", s |-> s]
PyInt(n) == [kind |-> "int", n |-> n]
PyBool(b) == [kind |-> "bool", b |-> b]

StrInputs ==
    { LowerPrefix(m.name, k) : m \in SingleTextClass, k \in 0..MaxLowered }
        \cup { <<>>, <<76, 69, 70, 84, 83>> }

Others ==
    {PyNone}
        \cup { PyEnum(m) : m \in SingleTextClass \cup {ForeignMember} }
        \cup { PyStr(s) : s \in StrInputs }
        \cup { PyInt(n) : n \in -2..MaxInt }
        \cup { PyBool(b) : b \in BOOLEAN }

\* isinstance(other, int): bool is a subclass of int
IsInstanceInt(o) == o.kind \in {"int", "bool"}

\* the integer a Python int or bool compares as (True == 1, False == 0)
IntValue(o) == IF o.kind = "bool" THEN (IF o.b THEN 1 ELSE 0) ELSE o.n

\* bool(n) of an integer
PyBoolOf(n) == n # 0

\* a Python comparison result as returned by __eq__
PyResult(b) == IF b THEN "True" ELSE "False"

\* SamplePairClass.__eq__ / SamplePair.Class.__eq__; a call that falls
\* through every branch returns None
EnumEq(self, o) ==
    IF o.kind = "None" /\ self.value = -1 THEN "True"
    ELSE IF o.kind = "enum" /\ o.member.cls = self.cls
        THEN PyResult(o.member.value = self.value)
    ELSE IF o.kind = "str" THEN PyResult(Upper(o.s) = self.name)
    ELSE IF IsInstanceInt(o) THEN PyResult(IntValue(o) = self.value)
    ELSE IF o.kind = "bool"
        THEN (IF self.value = -1 THEN "False"
              ELSE PyResult(PyBoolOf(self.value) = o.b))
    ELSE "None"

\* the truth value of a result of __eq__ (None is falsy)
Truthy(r) == r = "True"

(***************************************************************************)
(* Hashing.  str.__hash__ is a keyed hash of the characters; it is         *)
(* modelled as a polynomial hash of the character codes kept to 24 bits.   *)
(***************************************************************************)
HashWidth == 16777216

RECURSIVE StrHashFrom(_, _, _)
StrHashFrom(s, i, h) ==
    IF i > Len(s) THEN h
    ELSE StrHashFrom(s, i + 1, (h * 31 + s[i]) % HashWidth)

StrHash(s) == StrHashFrom(s, 1, 7)

\* int.__hash__ of a small integer (CPython reserves -1)
IntHash(n) == IF n = -1 THEN -2 ELSE n

\* SamplePair.Class.__hash__ returns the code, SamplePairClass.__hash__ the
\* hash of the member name
EnumHash(i, m) ==
    IF i = "SamplePair.Class" THEN IntHash(m.value) ELSE StrHash(m.name)

\* hash() of a hashable value; the enum member hashes with its own __hash__
PyHash(i, o) ==
    IF o.kind = "str" THEN StrHash(o.s)
    ELSE IF o.kind = "enum" THEN EnumHash(i, o.member)
    ELSE IntHash(IntValue(o))

(***************************************************************************)
(* Texts, sorting and joining as pair_id uses them.                        *)
(***************************************************************************)
\* most texts on one side of a pair built directly (SpecPair)
MaxTexts == 2

\* most reads of the pair_id property after construction (SpecPair)
MaxReads == 2

\* texts the pairs of SpecPair are built from: "x", "y" and "xy"
Texts == {<<120>>, <<121>>, <<120, 121>>}

\* lists of at most n texts
TextLists(n) == UNION { [1..k -> Texts] : k \in 0..n }

\* s < t for Python strings: code point by code point, a proper prefix first
RECURSIVE StrLess(_, _)
StrLess(s, t) ==
    IF t = <<>> THEN FALSE
    ELSE IF s = <<>> THEN TRUE
    ELSE IF s[1] # t[1] THEN s[1] < t[1]
    ELSE StrLess(Tail(s), Tail(t))

\* the sorted list with x put before the first element greater than x
RECURSIVE InsertSorted(_, _)
InsertSorted(x, l) ==
    IF l = <<>> THEN <<x>>
    ELSE IF StrLess(x, l[1]) THEN <<x>> \o l
    ELSE <<l[1]>> \o InsertSorted(x, Tail(l))

RECURSIVE SortedFrom(_, _, _)
SortedFrom(l, i, acc) ==
    IF i > Len(l) THEN acc ELSE SortedFrom(l, i + 1, InsertSorted(l[i], acc))

\* sorted() forgotten: the list as given
Sorted_Unsorted(l) == l

\* sorted(l) of a list of strings
Sorted(l) == SortedFrom(l, 1, <<>>)

\* the character code of "\n"
Newline == 10

\* "\n".join(l)
RECURSIVE JoinLines(_)
JoinLines(l) ==
    IF l = <<>> THEN <<>>
    ELSE IF Len(l) = 1 THEN l[1]
    ELSE l[1] \o <<Newline>> \o JoinLines(Tail(l))

\* uuid5(SAMPLE_PAIR_NS, name) as a string: a name-based hash, taken as
\* collision-free, so the UUID stands for the name it was computed from
Uuid5(name) == <<"412bd9f0-4c61-4bb7-a7f2-c88be2f9555c", name>>

\* self._pair_id before the first read
None == <<>>

\* no exception raised
NoError == [type |-> "none", message |-> <<>>]

\* the corpus root is there and no iteration has failed
CorpusIdle ==
    /\ corpus_path = "dir"
    /\ iter_raised = NoError

\* the value of the pair_id property: computed on the first read, cached after
PairIdValue(cache, a, b) ==
    IF cache = None THEN Uuid5(JoinLines(Sorted(a) \o Sorted(b))) ELSE cache

(***************************************************************************)
(* Events.                                                                 *)
(***************************************************************************)
\* ProgressEvent.generate_group_id / PairGenerationEvent.generate_group_id:
\* an identifier derived from the given items
GenerateGroupId(items) == <<"group", items>>

\* ProgressEvent(group_id, serial, events_total) as constructed in lines 28, 136
ProgressEvent(g, serial, total) ==
    [group_id |-> g, serial |-> serial, events_total |-> total]

\* ProgressEvent.new_event(event): the next event of the same group
NewEvent(e) == [e EXCEPT !.serial = e.serial + 1]

\* a call EventBroadcaster.publish(name, event, sender), added to the log of calls
Publish(log, name, event, sender) ==
    Append(log, [name |-> name, event |-> event, sender |-> sender])

\* Tokenizer.tokenize(text): the chunks of a text, one per character
Tokenize(t) == [i \in 1..Len(t) |-> <<t[i]>>]

(***************************************************************************)
(* SamplePairImpl.__init__, one step per publish() call.                   *)
(***************************************************************************)
PairIdle ==
    /\ pair_pc = "none"
    /\ pair_a = <<>>
    /\ pair_b = <<>>
    /\ pair_cls = UNSPECIFIED
    /\ pair_id = None
    /\ pair_event = None
    /\ pair_i = 0
    /\ chunks_a = <<>>
    /\ chunks_b = <<>>
    /\ reads = <<>>

\* the loop over b forgotten after the loop over a
AfterA_SkipB(a, b, i) == IF i < Len(a) THEN "a" ELSE "done"

\* where __init__ continues once the loop over a has passed i texts
AfterA(a, b, i) ==
    IF i < Len(a) THEN "a" ELSE IF Len(b) > 0 THEN "b" ELSE "done"

\* the loop over b left after its first text
AfterB_StopEarly(b, i) == "done"

\* where __init__ continues once the loop over b has passed i texts
AfterB(b, i) == IF i < Len(b) THEN "b" ELSE "done"

\* lines 21-24: the constructor stores its arguments and clears _pair_id
PairNew(a, b, cls) ==
    /\ pair_pc' = "start"
    /\ pair_a' = a
    /\ pair_b' = b
    /\ pair_cls' = cls
    /\ pair_id' = None
    /\ pair_event' = None
    /\ pair_i' = 0
    /\ chunks_a' = <<>>
    /\ chunks_b' = <<>>
    /\ reads' = <<>>

\* lines 26-32: the group id reads pair_id; the event with serial 0 is published
PairFirstEvent ==
    /\ pair_pc = "start"
    /\ LET id == PairIdValue(pair_id, pair_a, pair_b)
           e == ProgressEvent(GenerateGroupId(<<id>>), 0, Len(pair_a) + Len(pair_b))
       IN  /\ pair_id' = id
           /\ pair_event' = e
           /\ published' = Publish(published, "onProgress", e, "SamplePair")
    /\ chunks_a' = <<>>
    /\ pair_i' = 0
    /\ pair_pc' = AfterA(pair_a, pair_b, 0)
    /\ UNCHANGED <<pair_a, pair_b, pair_cls, chunks_b, reads, classVars, samplerVars, panVars, corpusVars, jobVars, bookVars>>

\* lines 33-36: one text of a is chunked and the next event is published
PairChunkA ==
    /\ pair_pc = "a"
    /\ chunks_a' = chunks_a \o Tokenize(pair_a[pair_i + 1])
    /\ pair_event' = NewEvent(pair_event)
    /\ published' = Publish(published, "onProgress", NewEvent(pair_event), "SamplePair")
    /\ pair_pc' = AfterA(pair_a, pair_b, pair_i + 1)
    /\ pair_i' = IF pair_i + 1 < Len(pair_a) THEN pair_i + 1 ELSE 0
    /\ UNCHANGED <<pair_a, pair_b, pair_cls, pair_id, chunks_b, reads, classVars, samplerVars, panVars, corpusVars, jobVars, bookVars>>

\* lines 38-42: one text of b is chunked and the next event is published
PairChunkB ==
    /\ pair_pc = "b"
    /\ chunks_b' = chunks_b \o Tokenize(pair_b[pair_i + 1])
    /\ pair_event' = NewEvent(pair_event)
    /\ published' = Publish(published, "onProgress", NewEvent(pair_event), "SamplePair")
    /\ pair_pc' = AfterB(pair_b, pair_i + 1)
    /\ pair_i' = pair_i + 1
    /\ UNCHANGED <<pair_a, pair_b, pair_cls, pair_id, chunks_a, reads, classVars, samplerVars, panVars, corpusVars, jobVars, bookVars>>

\* lines 48-53: a caller reads the pair_id property of the constructed pair
ReadPairId ==
    /\ pair_pc = "done"
    /\ Len(reads) < MaxReads
    /\ pair_id' = PairIdValue(pair_id, pair_a, pair_b)
    /\ reads' = Append(reads, PairIdValue(pair_id, pair_a, pair_b))
    /\ UNCHANGED <<pair_pc, pair_a, pair_b, pair_cls, pair_event, pair_i,
                   chunks_a, chunks_b, published, classVars, samplerVars, panVars, corpusVars, jobVars, bookVars>>

(***************************************************************************)
(* BookSampleParser: the corpus and the iterator over it.                  *)
(***************************************************************************)
\* most .txt files in one author directory
MaxFiles == 2

\* how many times next() is called until it raises StopIteration again
MaxStops == 2

\* the author directories of the corpus: "A", "B", "C"
AuthorNames == {<<65>>, <<66>>, <<67>>}

\* what os.listdir can return: some of the author directories, in some order
DirListings ==
    { l \in UNION { [1..k -> AuthorNames] : k \in 0..Cardinality(AuthorNames) } :
        \A i, j \in DOMAIN l : l[i] = l[j] => i = j }

\* the path of the n-th .txt file, in sorted order, of author directory d
FilePath(d, n) == <<d, n>>

\* the contents of a file: the author's letter and the digit of the file
FileContent(f) == f[1] \o <<48 + f[2]>>

\* a dict is the sequence of its items in insertion order
DictKeys(d) == [i \in 1..Len(d) |-> d[i].key]

\* d[k]
DictGet(d, k) == d[CHOOSE i \in 1..Len(d) : d[i].key = k].value

\* lines 118-131, self._authors: every listed directory with its sorted files
BuildAuthors(dirs, sizes) ==
    [i \in 1..Len(dirs) |->
        [key |-> dirs[i],
         value |-> [n \in 1..sizes[dirs[i]] |-> FilePath(dirs[i], n)]]]

\* lines 118-131, self._files: every file with its author, in reading order
RECURSIVE BuildFiles(_)
BuildFiles(auth) ==
    IF auth = <<>> THEN <<>>
    ELSE [n \in 1..Len(auth[1].value) |->
              [key |-> auth[1].value[n], value |-> auth[1].key]]
         \o BuildFiles(Tail(auth))

\* the primary file not left out of the comparison files
CompFileNames_KeepSelf(author_files, f) == author_files

\* lines 155-166, comp_file_names: the files of one author except file f
RECURSIVE CompFileNames(_, _)
CompFileNames(author_files, f) ==
    IF author_files = <<>> THEN <<>>
    ELSE IF author_files[1] = f THEN CompFileNames(Tail(author_files), f)
    ELSE <<author_files[1]>> \o CompFileNames(Tail(author_files), f)

\* lines 164-165, compare_texts: the contents of the comparison files
CompareTexts(names) == [i \in 1..Len(names) |-> FileContent(names[i])]

\* the memo never consulted
InSingleTextPairs_Never(pair_set, memo) == FALSE

\* a memo entry sharing one file with the pair taken for the pair
InSingleTextPairs_Overlap(pair_set, memo) ==
    \E i \in 1..Len(memo) : memo[i] \cap pair_set # {}

\* line 175: pair_set in self._single_text_pairs
InSingleTextPairs(pair_set, memo) == \E i \in 1..Len(memo) : memo[i] = pair_set

\* the two labels exchanged
PairLabel_Swapped(a, b2) == IF a = b2 THEN DIFFERENT_AUTHORS ELSE SAME_AUTHOR

\* lines 179-181: the class of a pair of a file of author a with author b2
PairLabel(a, b2) == IF a = b2 THEN SAME_AUTHOR ELSE DIFFERENT_AUTHORS

\* every event numbered 0
PairGenerationEvent_SerialZero(g, serial, pair, fa, fb) ==
    [group_id |-> g, serial |-> 0, pair |-> pair, files_a |-> fa, files_b |-> fb]

\* PairGenerationEvent(group_id, serial, pair, files_a, files_b)
PairGenerationEvent(g, serial, pair, fa, fb) ==
    [group_id |-> g, serial |-> serial, pair |-> pair, files_a |-> fa, files_b |-> fb]

\* the constructed pair as an object handed to events and callers
PairObject ==
    [a |-> pair_a, b |-> pair_b, cls |-> pair_cls, pair_id |-> pair_id,
     chunks_a |-> chunks_a, chunks_b |-> chunks_b]

BookIdle ==
    /\ book_pc = "none"
    /\ files = <<>>
    /\ authors = <<>>
    /\ iterator1 = 0
    /\ next1 = None
    /\ current_file_contents = None
    /\ iterator2 = -1
    /\ next2 = None
    /\ comp_file_names = <<>>
    /\ single_text_pairs = <<>>
    /\ pair_num = 0
    /\ progress_event = None
    /\ emitted = <<>>
    /\ stops = 0

\* lines 95-136: the iterator as constructed over some corpus; iterator2 is
\* None (-1) until the first text is read
BookInit ==
    \E dirs \in DirListings, sizes \in [AuthorNames -> 0..MaxFiles] :
        /\ authors = BuildAuthors(dirs, sizes)
        /\ files = BuildFiles(BuildAuthors(dirs, sizes))
        /\ iterator1 = 0
        /\ next1 = None
        /\ current_file_contents = None
        /\ iterator2 = -1
        /\ next2 = None
        /\ comp_file_names = <<>>
        /\ single_text_pairs = <<>>
        /\ pair_num = 0
        /\ progress_event =
               ProgressEvent(GenerateGroupId(DictKeys(BuildFiles(BuildAuthors(dirs, sizes)))),
                             0, Len(BuildFiles(BuildAuthors(dirs, sizes))))
        /\ emitted = <<>>
        /\ stops = 0
        /\ book_pc = "idle"

\* the last key taken for the end of the dict
IteratorExhausted_OneEarly(consumed, d) == consumed + 1 >= Len(d)

\* next(iterator) raises StopIteration: every key of the dict was consumed
IteratorExhausted(consumed, d) == consumed >= Len(d)

\* where __next__ starts: at the next text if _next2 is None, else at the next author
EnterNext(n2) == IF n2 = None THEN "text" ELSE "author"

\* a caller calls next() on the iterator
CallNext ==
    /\ book_pc = "idle"
    /\ stops < MaxStops
    /\ book_pc' = EnterNext(next2)
    /\ UNCHANGED <<files, authors, iterator1, next1, current_file_contents,
                   iterator2, next2, comp_file_names, single_text_pairs, pair_num,
                   progress_event, emitted, stops>>
    /\ UNCHANGED <<published, pairVars, classVars, samplerVars, panVars, corpusVars, jobVars>>

\* lines 140-146: the progress event is published, then the next file is taken
\* from _iterator1; when there is none StopIteration leaves __next__
NextText ==
    /\ book_pc = "text"
    /\ published' = Publish(published, "onProgress", progress_event, "BookSampleParser")
    /\ IF IteratorExhausted(iterator1, files)
       THEN /\ book_pc' = "idle"
            /\ stops' = stops + 1
            /\ UNCHANGED <<iterator1, next1, iterator2, progress_event,
                           current_file_contents>>
       ELSE /\ next1' = files[iterator1 + 1].key
            /\ iterator1' = iterator1 + 1
            /\ iterator2' = 0
            /\ progress_event' = NewEvent(progress_event)
            /\ current_file_contents' = FileContent(files[iterator1 + 1].key)
            /\ book_pc' = "author"
            /\ UNCHANGED stops
    /\ UNCHANGED <<files, authors, next2, comp_file_names, single_text_pairs,
                   pair_num, emitted>>
    /\ UNCHANGED <<pairVars, classVars, samplerVars, panVars, corpusVars, jobVars>>

\* lines 149-183: the next author is taken from _iterator2 and the comparison
\* files are collected; the combination is skipped (__next__ calls itself) or
\* the pair is constructed
NextAuthor ==
    /\ book_pc = "author"
    /\ IF IteratorExhausted(iterator2, authors)
       THEN /\ next2' = None
            /\ book_pc' = EnterNext(None)
            /\ UNCHANGED <<iterator2, comp_file_names, single_text_pairs, pairVars>>
       ELSE LET b2 == authors[iterator2 + 1].key
                names == CompFileNames(DictGet(authors, b2), next1)
                pair_set == {next1, names[Len(names)]}
            IN  /\ next2' = b2
                /\ iterator2' = iterator2 + 1
                /\ comp_file_names' = names
                /\ IF Len(names) = 0
                   THEN /\ book_pc' = EnterNext(b2)
                        /\ UNCHANGED <<single_text_pairs, pairVars>>
                   ELSE IF Len(names) = 1 /\ InSingleTextPairs(pair_set, single_text_pairs)
                   THEN /\ book_pc' = EnterNext(b2)
                        /\ UNCHANGED <<single_text_pairs, pairVars>>
                   ELSE /\ single_text_pairs' =
                               IF Len(names) = 1
                               THEN Append(single_text_pairs, pair_set)
                               ELSE single_text_pairs
                        /\ PairNew(<<current_file_contents>>, CompareTexts(names),
                                   PairLabel(DictGet(files, next1), b2))
                        /\ book_pc' = "construct"
    /\ UNCHANGED <<files, authors, iterator1, next1, current_file_contents,
                   pair_num, progress_event, emitted, stops>>
    /\ UNCHANGED <<published, classVars, samplerVars, panVars, corpusVars, jobVars>>

\* lines 184-190: the constructed pair is announced and returned
PublishPair ==
    /\ book_pc = "construct"
    /\ pair_pc = "done"
    /\ published' =
           Publish(published, "onPairGenerated",
                   PairGenerationEvent(
                       GenerateGroupId(<<<<"a:", next1>>>>
                           \o [i \in 1..Len(comp_file_names) |-> <<"b:", comp_file_names[i]>>]),
                       pair_num, PairObject, <<next1>>, comp_file_names),
                   "BookSampleParser")
    /\ pair_num' = pair_num + 1
    /\ emitted' = Append(emitted,
                         [pair |-> PairObject, primary |-> next1, author |-> next2,
                          comparison |-> comp_file_names])
    /\ book_pc' = "idle"
    /\ UNCHANGED <<files, authors, iterator1, next1, current_file_contents,
                   iterator2, next2, comp_file_names, single_text_pairs,
                   progress_event, stops>>
    /\ UNCHANGED <<pairVars, classVars, samplerVars, panVars, corpusVars, jobVars>>

(***************************************************************************)
(* The two Webis-Buzzfeed samplers: WebisBuzzfeedAuthorshipCorpusParser    *)
(* draws pairs of texts per pair of portals (the stratified sampler),      *)
(* WebisBuzzfeedCatCorpusParser per pair of text classes (the category     *)
(* sampler).  random.randint is a free choice of the index.                *)
(***************************************************************************)
\* the largest number of documents in the datasets
MaxDocs == 4

\* the largest configured number of samples
MaxSamples == 6

\* line 265: portals with fewer texts are discarded.  The source compares
\* with 50; the model keeps the comparison and scales the number so that
\* portals on both sides of it fit into MaxDocs documents.
MinPortalTexts == 2

\* the host names of the portals
Portals == { <<112>>, <<113>> }

\* WebisBuzzfeedAuthorshipCorpusParser.Class
SAME_PORTAL ==
    [cls |-> "PortalClass", value |-> 0,
     name |-> <<83, 65, 77, 69, 95, 80, 79, 82, 84, 65, 76>>]
DIFFERENT_PORTALS ==
    [cls |-> "PortalClass", value |-> 1,
     name |-> <<68, 73, 70, 70, 69, 82, 69, 78, 84, 95, 80, 79, 82, 84, 65, 76, 83>>]

\* WebisBuzzfeedCatCorpusParser.PairClass, lines 356-376
PairClass ==
    { [cls |-> "PairClass", value |-> -1,
       name |-> NameUNSPECIFIED],
      [cls |-> "PairClass", value |-> 0,
       name |-> <<76, 69, 70, 84, 95, 76, 69, 70, 84>>],
      [cls |-> "PairClass", value |-> 1,
       name |-> <<82, 73, 71, 72, 84, 95, 82, 73, 71, 72, 84>>],
      [cls |-> "PairClass", value |-> 2,
       name |-> <<77, 65, 73, 78, 83, 84, 82, 69, 65, 77, 95, 77, 65, 73, 78, 83, 84, 82, 69, 65, 77>>],
      [cls |-> "PairClass", value |-> 3,
       name |-> <<76, 69, 70, 84, 95, 82, 73, 71, 72, 84>>],
      [cls |-> "PairClass", value |-> 4,
       name |-> <<76, 69, 70, 84, 95, 77, 65, 73, 78, 83, 84, 82, 69, 65, 77>>],
      [cls |-> "PairClass", value |-> 5,
       name |-> <<82, 73, 71, 72, 84, 95, 77, 65, 73, 78, 83, 84, 82, 69, 65, 77>>],
      [cls |-> "PairClass", value |-> 10,
       name |-> <<70, 65, 75, 69, 95, 70, 65, 75, 69>>],
      [cls |-> "PairClass", value |-> 11,
       name |-> <<82, 69, 65, 76, 95, 82, 69, 65, 76>>],
      [cls |-> "PairClass", value |-> 12,
       name |-> <<83, 65, 84, 73, 82, 69, 95, 83, 65, 84, 73, 82, 69>>],
      [cls |-> "PairClass", value |-> 13,
       name |-> <<70, 65, 75, 69, 95, 82, 69, 65, 76>>],
      [cls |-> "PairClass", value |-> 14,
       name |-> <<70, 65, 75, 69, 95, 83, 65, 84, 73, 82, 69>>],
      [cls |-> "PairClass", value |-> 15,
       name |-> <<83, 65, 84, 73, 82, 69, 95, 82, 69, 65, 76>>],
      [cls |-> "PairClass", value |-> 20,
       name |-> <<70, 65, 75, 69, 95, 76, 69, 70, 84, 95, 70, 65, 75, 69, 95, 82, 73, 71, 72, 84>>],
      [cls |-> "PairClass", value |-> 21,
       name |-> <<70, 65, 75, 69, 95, 76, 69, 70, 84, 95, 82, 69, 65, 76, 95, 76, 69, 70, 84>>],
      [cls |-> "PairClass", value |-> 22,
       name |-> <<70, 65, 75, 69, 95, 82, 73, 71, 72, 84, 95, 82, 69, 65, 76, 95, 82, 73, 71, 72, 84>>],
      [cls |-> "PairClass", value |-> 23,
       name |-> <<82, 69, 65, 76, 95, 82, 73, 71, 72, 84, 95, 82, 69, 65, 76, 95, 76, 69, 70, 84>>] }

\* the classes the class assigner gives to the documents of the model
LEFT == CHOOSE m \in SingleTextClass : m.name = NameLEFT
RIGHT == CHOOSE m \in SingleTextClass : m.name = NameRIGHT
MAINSTREAM == CHOOSE m \in SingleTextClass : m.name = NameMAINSTREAM
TextClasses == { LEFT, RIGHT, MAINSTREAM }

\* the orders in which the groups of a corpus can first appear in a listing
GroupListings(groups) ==
    { l \in UNION { [1..k -> groups] : k \in 0..Cardinality(groups) } :
        \A i, j \in DOMAIN l : l[i] = l[j] => i = j }

\* the string a group contributes to the texts of its documents
GroupLetter(g) == IF g \in SingleTextClass THEN <<g.name[1]>> ELSE g

\* one XML document: its path, its group (the host name of <uri> for the
\* stratified sampler, the class the class assigner returns for the category
\* sampler) and the text of its <mainText>
XmlFile(g, n) ==
    [file_path |-> FilePath(GroupLetter(g), n),
     group |-> g,
     main_text |-> FileContent(FilePath(GroupLetter(g), n)),
     well_formed |-> TRUE]

\* the same file with content that is not well-formed XML
Malformed(doc) == [doc EXCEPT !.well_formed = FALSE]

\* FileNotFoundError raised by os.listdir(ds_path) under a missing corpus root
ListdirError == [type |-> "FileNotFoundError", message |-> <<>>]

\* xml.etree.ElementTree.ParseError raised by etree.parse(file_path)
ParseError(file_path) == [type |-> "ParseError", message |-> file_path]

\* every document taken for well-formed
ReadDataset_SkipMalformed(root, docs) ==
    IF root = "absent" THEN ListdirError ELSE NoError

\* lines 233 and 241, 510 and 518: the exception that leaves the loops over
\* the files of the datasets: os.listdir fails without the corpus root,
\* etree.parse at the first file that is not well-formed
ReadDataset(root, docs) ==
    IF root = "absent" THEN ListdirError
    ELSE IF \E i \in 1..Len(docs) : ~docs[i].well_formed
    THEN ParseError(docs[CHOOSE i \in 1..Len(docs) :
                             /\ ~docs[i].well_formed
                             /\ \A j \in 1..(i - 1) : docs[j].well_formed].file_path)
    ELSE NoError

\* a listing of the datasets with sizes[g] documents of group g
RECURSIVE BuildDataset(_, _)
BuildDataset(groups, sizes) ==
    IF groups = <<>> THEN <<>>
    ELSE [n \in 1..sizes[groups[1]] |-> XmlFile(groups[1], n)]
         \o BuildDataset(Tail(groups), sizes)

\* the sum of sizes[g] over the groups of a listing
RECURSIVE TotalDocs(_, _)
TotalDocs(groups, sizes) ==
    IF groups = <<>> THEN 0 ELSE sizes[groups[1]] + TotalDocs(Tail(groups), sizes)

\* d[k].append(v), with d[k] = [] first if k is not in d
DictAppend(d, k, v) ==
    IF k \in Range(DictKeys(d))
    THEN [i \in 1..Len(d) |->
             IF d[i].key = k THEN [key |-> k, value |-> Append(d[i].value, v)]
             ELSE d[i]]
    ELSE Append(d, [key |-> k, value |-> <<v>>])

\* lines 231-259: the documents with a portal and a text, by portal
RECURSIVE LoadPortals(_, _)
LoadPortals(docs, d) ==
    IF docs = <<>> THEN d
    ELSE IF docs[1].group = <<>> \/ docs[1].main_text = <<>>
         THEN LoadPortals(Tail(docs), d)
         ELSE LoadPortals(Tail(docs),
                          DictAppend(d, docs[1].group,
                                     <<docs[1].file_path, docs[1].main_text>>))

\* no portal discarded
DiscardSmall_KeepAll(d) == d

\* lines 261-266: all portals with too few texts are discarded
DiscardSmall(d) == SelectSeq(d, LAMBDA it : ~(Len(it.value) < MinPortalTexts))

\* lines 508-525: the documents with a class other than UNSPECIFIED, by class
RECURSIVE LoadClasses(_, _)
LoadClasses(docs, d) ==
    IF docs = <<>> THEN d
    ELSE IF docs[1].group.value = -1
         THEN LoadClasses(Tail(docs), d)
         ELSE LoadClasses(Tail(docs),
                          DictAppend(d, docs[1].group,
                                     <<docs[1].file_path,
                                       [mainText |-> docs[1].main_text]>>))

\* the inner loop started at the key of the outer loop: unordered pairs only
NextPosition_Unordered(c1, c2, n) ==
    IF n = 0 THEN None
    ELSE IF c1 = 0 THEN <<1, 1>>
    ELSE IF c2 < n THEN <<c1, c2 + 1>>
    ELSE IF c1 < n THEN <<c1 + 1, c1 + 1>>
    ELSE None

\* the nested loops `for cls1 in d: for cls2 in d` over a dict of n keys: the
\* positions after <<c1, c2>>, None after the last combination
NextPosition(c1, c2, n) ==
    IF n = 0 THEN None
    ELSE IF c1 = 0 THEN <<1, 1>>
    ELSE IF c2 < n THEN <<c1, c2 + 1>>
    ELSE IF c1 < n THEN <<c1 + 1, 1>>
    ELSE None

\* the sample target not looked at
LoopCondition_NoTarget(counter, s, da, db, n1, n2) == Len(da) < n1 /\ Len(db) < n2

\* line 292, the condition of the while loop of the stratified sampler
LoopCondition(counter, s, da, db, n1, n2) ==
    counter < s /\ Len(da) < n1 /\ Len(db) < n2

\* line 571, the condition of the while loop of the category sampler
CatLoopCondition(counter, s, da, db, n1, n2) ==
    counter < s /\ Len(da) < n1 /\ (Len(db) < n2 /\ n2 > 0)

\* a class compared with itself drawn from like two different classes
DrawAccepted_NoSelfCheck(same, idx1, idx2, da, db) ==
    ~(idx1 \in Range(da) \/ idx2 \in Range(db))

\* an index drawn before is taken again
DrawAccepted_WithReplacement(same, idx1, idx2, da, db) == same => ~(idx1 = idx2)

\* lines 295-306 and 574-585: the drawn indices are used, not drawn again
DrawAccepted(same, idx1, idx2, da, db) ==
    /\ same =>
        /\ ~(idx1 = idx2)
        /\ ~(idx1 \in Range(da) \/ idx1 \in Range(db))
        /\ ~(idx2 \in Range(da) \/ idx2 \in Range(db))
    /\ ~(idx1 \in Range(da) \/ idx2 \in Range(db))

\* the loop left at half of the sample target
SelfBreak_AtHalfSamples(same, da, n1, s) == same /\ Len(da) >= s \div 2

\* lines 319-320 and 596-599: a class compared with itself needs no more draws
SelfBreak(same, da, n1, s) == same /\ Len(da) >= n1 \div 2

\* lines 324-327: the drawn indices after the oversampling resets
Oversample(counter, s, da, db, n1, n2) ==
    IF counter < s \div 2 /\ Len(da) >= n1 THEN <<<<>>, db>>
    ELSE IF counter < s \div 2 /\ Len(db) >= n2 THEN <<da, <<>>>>
    ELSE <<da, db>>

SamplerIdle ==
    /\ parser = "none"
    /\ sampler_pc = "none"
    /\ dataset = <<>>
    /\ samples = 0
    /\ texts_by_portals = <<>>
    /\ texts_by_class = <<>>
    /\ processed_comp_classes = <<>>
    /\ cls1_at = 0
    /\ cls2_at = 0
    /\ pair_class = None
    /\ pair_counter = 0
    /\ drawn_a = <<>>
    /\ drawn_b = <<>>
    /\ sample_chunks_a = <<>>
    /\ sample_chunks_b = <<>>
    /\ file_names_a = <<>>
    /\ file_names_b = <<>>

\* a sampler of class c constructed over a corpus of the given groups
SamplerInit(c, groups) ==
    /\ parser = c
    /\ sampler_pc = "start"
    /\ \E listing \in GroupListings(groups), sizes \in [groups -> 1..MaxDocs] :
           /\ TotalDocs(listing, sizes) <= MaxDocs
           /\ dataset = BuildDataset(listing, sizes)
    /\ samples \in 1..MaxSamples
    /\ texts_by_portals = <<>>
    /\ texts_by_class = <<>>
    /\ processed_comp_classes = <<>>
    /\ cls1_at = 0
    /\ cls2_at = 0
    /\ pair_class = None
    /\ pair_counter = 0
    /\ drawn_a = <<>>
    /\ drawn_b = <<>>
    /\ sample_chunks_a = <<>>
    /\ sample_chunks_b = <<>>
    /\ file_names_a = <<>>
    /\ file_names_b = <<>>

\* the variables the loops of a sampler work on
loopVars == <<pair_counter, drawn_a, drawn_b, sample_chunks_a, sample_chunks_b,
              file_names_a, file_names_b>>

\* what no step of a sampler changes
samplerFrame == <<parser, dataset, samples, bookLocalVars, classVars, panVars, corpusVars, jobVars>>

\* what the first step of a sampler, which reads the datasets, does not change
loadFrame == <<parser, dataset, samples, bookLocalVars, classVars, panVars, corpus_path, jobVars>>

\* the pair handed to the caller by `yield pair`, with what it was made from
Yielded(d) ==
    [pair |-> PairObject, cls1 |-> d[cls1_at].key, cls2 |-> d[cls2_at].key,
     num_texts1 |-> Len(d[cls1_at].value), num_texts2 |-> Len(d[cls2_at].value),
     pair_counter |-> pair_counter, drawn_a |-> drawn_a, drawn_b |-> drawn_b,
     file_names_a |-> file_names_a, file_names_b |-> file_names_b]

\* lines 229-268: the documents are read and grouped, small portals discarded
StratifiedLoad ==
    /\ parser = "WebisBuzzfeedAuthorshipCorpusParser"
    /\ sampler_pc = "start"
    /\ iter_raised' = ReadDataset(corpus_path, dataset)
    /\ IF ReadDataset(corpus_path, dataset) # NoError
       THEN /\ sampler_pc' = "raised"
            /\ UNCHANGED <<texts_by_portals, pair_num>>
       ELSE /\ texts_by_portals' = DiscardSmall(LoadPortals(dataset, <<>>))
            /\ pair_num' = 0
            /\ sampler_pc' = "for"
    /\ UNCHANGED <<texts_by_class, processed_comp_classes, cls1_at, cls2_at, pair_class,
                   loopVars, published, emitted, stops, pairVars, loadFrame>>

\* lines 270-290: the loops go to the next pair of portals, or end
StratifiedNext ==
    /\ parser = "WebisBuzzfeedAuthorshipCorpusParser"
    /\ sampler_pc = "for"
    /\ LET nxt == NextPosition(cls1_at, cls2_at, Len(texts_by_portals))
       IN  IF nxt = None
           THEN /\ sampler_pc' = "done"
                /\ stops' = stops + 1
                /\ UNCHANGED <<cls1_at, cls2_at, loopVars>>
           ELSE /\ sampler_pc' = "loop"
                /\ stops' = stops
                /\ cls1_at' = nxt[1]
                /\ cls2_at' = nxt[2]
                /\ pair_counter' = 0
                /\ drawn_a' = <<>>
                /\ drawn_b' = <<>>
                /\ sample_chunks_a' = <<>>
                /\ sample_chunks_b' = <<>>
                /\ file_names_a' = <<>>
                /\ file_names_b' = <<>>
    /\ UNCHANGED <<texts_by_portals, texts_by_class, processed_comp_classes, pair_class,
                   pair_num, published, emitted, pairVars, samplerFrame>>

\* lines 292-327: one pass of the while loop with some idx1 and idx2
StratifiedDraw ==
    /\ parser = "WebisBuzzfeedAuthorshipCorpusParser"
    /\ sampler_pc = "loop"
    /\ LET texts1 == texts_by_portals[cls1_at].value
           texts2 == texts_by_portals[cls2_at].value
           num_texts1 == Len(texts1)
           num_texts2 == Len(texts2)
           same == cls1_at = cls2_at
       IN  /\ LoopCondition(pair_counter, samples, drawn_a, drawn_b, num_texts1, num_texts2)
           /\ \E idx1 \in 0..(num_texts1 - 1), idx2 \in 0..(num_texts2 - 1) :
                  IF ~DrawAccepted(same, idx1, idx2, drawn_a, drawn_b)
                  THEN UNCHANGED <<sampler_pc, loopVars>>
                  ELSE /\ sample_chunks_a' = Append(sample_chunks_a, texts1[idx1 + 1][2])
                       /\ sample_chunks_b' = Append(sample_chunks_b, texts2[idx2 + 1][2])
                       /\ file_names_a' = Append(file_names_a, texts1[idx1 + 1][1])
                       /\ file_names_b' = Append(file_names_b, texts2[idx2 + 1][1])
                       /\ pair_counter' = pair_counter + 1
                       /\ LET da == Append(drawn_a, idx1)
                              db == Append(drawn_b, idx2)
                              reset == Oversample(pair_counter + 1, samples, da, db,
                                                  num_texts1, num_texts2)
                          IN  IF SelfBreak(same, da, num_texts1, samples)
                              THEN /\ drawn_a' = da
                                   /\ drawn_b' = db
                                   /\ sampler_pc' = "construct"
                              ELSE /\ drawn_a' = reset[1]
                                   /\ drawn_b' = reset[2]
                                   /\ sampler_pc' = "loop"
    /\ UNCHANGED <<texts_by_portals, texts_by_class, processed_comp_classes, cls1_at, cls2_at,
                   pair_class, pair_num, published, emitted, stops, pairVars, samplerFrame>>

\* lines 329-333: the loop is over; the pair is constructed from the drawn texts
StratifiedConstruct ==
    /\ parser = "WebisBuzzfeedAuthorshipCorpusParser"
    /\ \/ sampler_pc = "construct"
       \/ /\ sampler_pc = "loop"
          /\ ~LoopCondition(pair_counter, samples, drawn_a, drawn_b,
                            Len(texts_by_portals[cls1_at].value),
                            Len(texts_by_portals[cls2_at].value))
    /\ pair_class' = IF cls1_at = cls2_at THEN SAME_PORTAL ELSE DIFFERENT_PORTALS
    /\ PairNew(sample_chunks_a, sample_chunks_b,
               IF cls1_at = cls2_at THEN SAME_PORTAL ELSE DIFFERENT_PORTALS)
    /\ sampler_pc' = "pair"
    /\ UNCHANGED <<texts_by_portals, texts_by_class, processed_comp_classes, cls1_at, cls2_at,
                   loopVars, pair_num, published, emitted, stops, samplerFrame>>

\* lines 334-339: the pair is announced, counted and yielded
StratifiedPublish ==
    /\ parser = "WebisBuzzfeedAuthorshipCorpusParser"
    /\ sampler_pc = "pair"
    /\ pair_pc = "done"
    /\ published' =
           Publish(published, "onPairGenerated",
                   PairGenerationEvent(GenerateGroupId(<<PairIdValue(pair_id, pair_a, pair_b)>>),
                                       pair_num, PairObject, file_names_a, file_names_b),
                   "WebisBuzzfeedAuthorshipCorpusParser")
    /\ pair_num' = pair_num + 1
    /\ emitted' = Append(emitted, Yielded(texts_by_portals))
    /\ sampler_pc' = "for"
    /\ UNCHANGED <<texts_by_portals, texts_by_class, processed_comp_classes, cls1_at, cls2_at,
                   pair_class, loopVars, stops, pairVars, samplerFrame>>

\* PairClass[name], None where Python raises KeyError
PairClassNamed(name) ==
    IF \E m \in PairClass : m.name = name
    THEN CHOOSE m \in PairClass : m.name = name
    ELSE None

\* the member named for the classes in either order
LookupPairClass_EitherOrder(c1, c2) ==
    LET first == PairClassNamed(c1.name \o <<95>> \o c2.name)
        second == PairClassNamed(c2.name \o <<95>> \o c1.name)
    IN  IF first # None THEN first ELSE second

\* lines 535-541: pair_class after the two lookups in the try block
LookupPairClass(c1, c2) ==
    LET first == PairClassNamed(c1.name \o <<95>> \o c2.name)
        second == PairClassNamed(c2.name \o <<95>> \o c1.name)
    IN  IF first = None THEN None
        ELSE IF second = None THEN first
        ELSE second

\* every combination of two classes taken
SkipCombination_Never(pc, comp_class, processed) == FALSE

\* lines 539-545: the combination is not named in PairClass or was processed
SkipCombination(pc, comp_class, processed) ==
    pc = None \/ comp_class \in Range(processed)

\* the sizes of the classes not looked at
TooFewSamples_Never(n1, n2, same, s) == FALSE

\* lines 567-569: both classes have too few samples
TooFewSamples(n1, n2, same, s) ==
    n1 + n2 < s \/ (same /\ n1 < s \div 4)

\* lines 507-530: the documents are read and grouped by their class
CatLoad ==
    /\ parser = "WebisBuzzfeedCatCorpusParser"
    /\ sampler_pc = "start"
    /\ iter_raised' = ReadDataset(corpus_path, dataset)
    /\ IF ReadDataset(corpus_path, dataset) # NoError
       THEN /\ sampler_pc' = "raised"
            /\ UNCHANGED <<texts_by_class, processed_comp_classes, pair_num>>
       ELSE /\ texts_by_class' = LoadClasses(dataset, <<>>)
            /\ processed_comp_classes' = <<>>
            /\ pair_num' = 0
            /\ sampler_pc' = "for"
    /\ UNCHANGED <<texts_by_portals, cls1_at, cls2_at, pair_class,
                   loopVars, published, emitted, stops, pairVars, loadFrame>>

\* lines 532-569: the loops go to the next combination of classes, which is
\* skipped or sampled, or end
CatNext ==
    /\ parser = "WebisBuzzfeedCatCorpusParser"
    /\ sampler_pc = "for"
    /\ LET nxt == NextPosition(cls1_at, cls2_at, Len(texts_by_class))
       IN  IF nxt = None
           THEN /\ sampler_pc' = "done"
                /\ stops' = stops + 1
                /\ UNCHANGED <<cls1_at, cls2_at, pair_class, processed_comp_classes, loopVars>>
           ELSE LET cls1 == texts_by_class[nxt[1]].key
                    cls2 == texts_by_class[nxt[2]].key
                    num_texts1 == Len(texts_by_class[nxt[1]].value)
                    num_texts2 == Len(texts_by_class[nxt[2]].value)
                    comp_class == {cls1, cls2}
                IN  /\ stops' = stops
                    /\ cls1_at' = nxt[1]
                    /\ cls2_at' = nxt[2]
                    /\ pair_class' = LookupPairClass(cls1, cls2)
                    /\ IF SkipCombination(LookupPairClass(cls1, cls2), comp_class,
                                          processed_comp_classes)
                       THEN /\ sampler_pc' = "for"
                            /\ UNCHANGED <<processed_comp_classes, loopVars>>
                       ELSE /\ processed_comp_classes' =
                                   Append(processed_comp_classes, comp_class)
                            /\ pair_counter' = 0
                            /\ drawn_a' = <<>>
                            /\ drawn_b' = <<>>
                            /\ sample_chunks_a' = <<>>
                            /\ sample_chunks_b' = <<>>
                            /\ file_names_a' = <<>>
                            /\ file_names_b' = <<>>
                            /\ sampler_pc' =
                                   IF TooFewSamples(num_texts1, num_texts2, cls1 = cls2, samples)
                                   THEN "for" ELSE "loop"
    /\ UNCHANGED <<texts_by_portals, texts_by_class,
                   pair_num, published, emitted, pairVars, samplerFrame>>

\* lines 571-605: one pass of the while loop with some idx1 and idx2
CatDraw ==
    /\ parser = "WebisBuzzfeedCatCorpusParser"
    /\ sampler_pc = "loop"
    /\ LET texts1 == texts_by_class[cls1_at].value
           texts2 == texts_by_class[cls2_at].value
           num_texts1 == Len(texts1)
           num_texts2 == Len(texts2)
           same == cls1_at = cls2_at
       IN  /\ CatLoopCondition(pair_counter, samples, drawn_a, drawn_b, num_texts1, num_texts2)
           /\ \E idx1 \in 0..(num_texts1 - 1), idx2 \in 0..(num_texts2 - 1) :
                  IF ~DrawAccepted(same, idx1, idx2, drawn_a, drawn_b)
                  THEN UNCHANGED <<sampler_pc, loopVars>>
                  ELSE LET xml1 == texts1[idx1 + 1][2]
                           xml2 == texts2[idx2 + 1][2]
                       IN  /\ sample_chunks_a' =
                                  IF xml1.mainText # None
                                  THEN Append(sample_chunks_a, xml1.mainText)
                                  ELSE sample_chunks_a
                           /\ file_names_a' =
                                  IF xml1.mainText # None
                                  THEN Append(file_names_a, texts1[idx1 + 1][1])
                                  ELSE file_names_a
                           /\ drawn_a' = Append(drawn_a, idx1)
                           /\ sample_chunks_b' =
                                  IF xml2.mainText # None
                                  THEN Append(sample_chunks_b, xml2.mainText)
                                  ELSE sample_chunks_b
                           /\ file_names_b' =
                                  IF xml2.mainText # None
                                  THEN Append(file_names_b, texts2[idx2 + 1][1])
                                  ELSE file_names_b
                           /\ drawn_b' = Append(drawn_b, idx2)
                           /\ pair_counter' = pair_counter + 1
                           /\ sampler_pc' =
                                  IF SelfBreak(same, Append(drawn_a, idx1), num_texts1, samples)
                                  THEN "construct" ELSE "loop"
    /\ UNCHANGED <<texts_by_portals, texts_by_class, processed_comp_classes, cls1_at, cls2_at,
                   pair_class, pair_num, published, emitted, stops, pairVars, samplerFrame>>

\* line 614: the loop is over; the pair is constructed from the drawn texts
CatConstruct ==
    /\ parser = "WebisBuzzfeedCatCorpusParser"
    /\ \/ sampler_pc = "construct"
       \/ /\ sampler_pc = "loop"
          /\ ~CatLoopCondition(pair_counter, samples, drawn_a, drawn_b,
                               Len(texts_by_class[cls1_at].value),
                               Len(texts_by_class[cls2_at].value))
    /\ PairNew(sample_chunks_a, sample_chunks_b, pair_class)
    /\ sampler_pc' = "pair"
    /\ UNCHANGED <<texts_by_portals, texts_by_class, processed_comp_classes, cls1_at, cls2_at,
                   pair_class, loopVars, pair_num, published, emitted, stops, samplerFrame>>

\* lines 615-620: the pair is announced, counted and yielded
CatPublish ==
    /\ parser = "WebisBuzzfeedCatCorpusParser"
    /\ sampler_pc = "pair"
    /\ pair_pc = "done"
    /\ published' =
           Publish(published, "onPairGenerated",
                   PairGenerationEvent(GenerateGroupId(<<PairIdValue(pair_id, pair_a, pair_b)>>),
                                       pair_num, PairObject, file_names_a, file_names_b),
                   "WebisBuzzfeedCatCorpusParser")
    /\ pair_num' = pair_num + 1
    /\ emitted' = Append(emitted, Yielded(texts_by_class))
    /\ sampler_pc' = "for"
    /\ UNCHANGED <<texts_by_portals, texts_by_class, processed_comp_classes, cls1_at, cls2_at,
                   pair_class, loopVars, stops, pairVars, samplerFrame>>

(***************************************************************************)
(* PanParser: a corpus of case directories with an optional truth.txt.     *)
(***************************************************************************)
\* the largest number of lines of truth.txt
MaxTruthLines == 2

\* the names of the entries of the corpus directory
CaseNames == { <<65>>, <<66>> }

\* what the corpus directory can hold under one name: a plain file, or a
\* directory with or without unknown.txt and with the files knownNN.txt in
\* the order glob lists them
CaseEntries ==
    { [name |-> n, isdir |-> FALSE, unknown |-> FALSE, known |-> <<>>] : n \in CaseNames }
    \cup
    { [name |-> n, isdir |-> TRUE, unknown |-> u, known |-> k] :
        n \in CaseNames, u \in BOOLEAN, k \in { <<>>, <<1>>, <<2>>, <<1, 2>>, <<2, 1>> } }

\* what glob(corpus_path + "/*") can return
CaseListings ==
    { l \in UNION { [1..k -> CaseEntries] : k \in 0..Cardinality(CaseNames) } :
        \A i, j \in DOMAIN l : l[i].name = l[j].name => i = j }

\* lines a truth.txt of the model can have: "A Y\n", "A N\n", "B y\n",
\* "B\tN" without newline, " A Y\n", "A Y \n", "A\n"
TruthLines ==
    { <<65, 32, 89, 10>>, <<65, 32, 78, 10>>, <<66, 32, 121, 10>>, <<66, 9, 78>>,
      <<32, 65, 32, 89, 10>>, <<65, 32, 89, 32, 10>>, <<65, 10>> }

\* the files truth.txt can be, None if there is none
TruthFiles ==
    { None } \cup UNION { [1..k -> TruthLines] : k \in 1..MaxTruthLines }

\* re.split("[ \t]+", s) from character i on: acc are the pieces closed so
\* far, cur the piece being read, sep whether the last character was a blank
RECURSIVE SplitFrom(_, _, _, _, _)
SplitFrom(s, i, acc, cur, sep) ==
    IF i > Len(s) THEN Append(acc, cur)
    ELSE IF s[i] \in {32, 9}
         THEN IF sep THEN SplitFrom(s, i + 1, acc, cur, TRUE)
              ELSE SplitFrom(s, i + 1, Append(acc, cur), <<>>, TRUE)
         ELSE SplitFrom(s, i + 1, acc, Append(cur, s[i]), FALSE)

\* re.split("[ \t]+", s)
ReSplit(s) == SplitFrom(s, 1, <<>>, <<>>, FALSE)

\* the characters str.strip() removes
Whitespace == {32, 9, 10, 11, 12, 13}

\* str.strip()
RECURSIVE Strip(_)
Strip(s) ==
    IF s = <<>> THEN s
    ELSE IF s[1] \in Whitespace THEN Strip(Tail(s))
    ELSE IF s[Len(s)] \in Whitespace THEN Strip(SubSeq(s, 1, Len(s) - 1))
    ELSE s

\* str.replace("\ufeff", "")
RemoveBom(s) == SelectSeq(s, LAMBDA c : c # 65279)

\* d[k] = v
DictSet(d, k, v) ==
    IF k \in Range(DictKeys(d))
    THEN [i \in 1..Len(d) |-> IF d[i].key = k THEN [key |-> k, value |-> v] ELSE d[i]]
    ELSE Append(d, [key |-> k, value |-> v])

\* lines 644-648: ground_truth after the given lines, starting from d
RECURSIVE ParseTruth(_, _)
ParseTruth(lines, d) ==
    IF lines = <<>> THEN d
    ELSE LET pieces == ReSplit(lines[1])
             tmp == [i \in 1..Len(pieces) |-> RemoveBom(Strip(pieces[i]))]
         IN  IF 2 # Len(tmp)
             THEN ParseTruth(Tail(lines), d)
             ELSE ParseTruth(Tail(lines), DictSet(d, tmp[1], Upper(tmp[2]) = <<89>>))

\* the two labels exchanged
CaseClass_Swapped(case, gt) ==
    IF case \in Range(DictKeys(gt))
    THEN IF DictGet(gt, case) THEN DIFFERENT_AUTHORS ELSE SAME_AUTHOR
    ELSE UNSPECIFIED

\* lines 671-673: the class of a case
CaseClass(case, gt) ==
    IF case \in Range(DictKeys(gt))
    THEN IF DictGet(gt, case) THEN SAME_AUTHOR ELSE DIFFERENT_AUTHORS
    ELSE UNSPECIFIED

\* the case directory always taken
SkipCase_Never(e) == FALSE

\* lines 653-656: the entry is no case directory
SkipCase(e) == ~e.isdir \/ ~e.unknown \/ ~(1 \in Range(e.known))

\* the paths of unknown.txt (0) and knownNN.txt (NN) of a case
CaseFile(case, n) == <<case, n>>

\* the contents of a file of a case
CaseText(case, n) == case \o <<48 + n>>

PanIdle ==
    /\ pan_pc = "none"
    /\ truth = None
    /\ ground_truth = <<>>
    /\ case_dirs = <<>>
    /\ case_at = 0

PanInit ==
    /\ pan_pc = "start"
    /\ truth \in TruthFiles
    /\ case_dirs \in CaseListings
    /\ ground_truth = <<>>
    /\ case_at = 0

\* what no step of PanParser.__iter__ changes
panFrame == <<truth, case_dirs, bookLocalVars, classVars, samplerVars, corpusVars, jobVars>>

\* lines 640-650: truth.txt is parsed if it exists
PanLoad ==
    /\ pan_pc = "start"
    /\ ground_truth' = IF truth = None THEN <<>> ELSE ParseTruth(truth, <<>>)
    /\ pair_num' = 0
    /\ pan_pc' = "for"
    /\ UNCHANGED <<case_at, published, emitted, stops, pairVars, panFrame>>

\* lines 652-675: the loop goes to the next entry, which is skipped or made
\* a pair of, or ends
PanNext ==
    /\ pan_pc = "for"
    /\ IF case_at >= Len(case_dirs)
       THEN /\ pan_pc' = "done"
            /\ stops' = stops + 1
            /\ UNCHANGED <<case_at, pairVars>>
       ELSE LET e == case_dirs[case_at + 1]
            IN  /\ case_at' = case_at + 1
                /\ stops' = stops
                /\ IF SkipCase(e)
                   THEN /\ pan_pc' = "for"
                        /\ UNCHANGED pairVars
                   ELSE /\ pan_pc' = "pair"
                        /\ PairNew(<<CaseText(e.name, 0)>>,
                                   [i \in 1..Len(e.known) |-> CaseText(e.name, e.known[i])],
                                   CaseClass(e.name, ground_truth))
    /\ UNCHANGED <<ground_truth, pair_num, published, emitted, panFrame>>

\* lines 676-681: the pair is announced, counted and yielded
PanPublish ==
    /\ pan_pc = "pair"
    /\ pair_pc = "done"
    /\ LET e == case_dirs[case_at]
           name_a == CaseFile(e.name, 0)
           names_b == [i \in 1..Len(e.known) |-> CaseFile(e.name, e.known[i])]
       IN  /\ published' =
                  Publish(published, "onPairGenerated",
                          PairGenerationEvent(
                              GenerateGroupId(<<PairIdValue(pair_id, pair_a, pair_b)>>),
                              pair_num, PairObject, <<name_a>>, names_b),
                          "PanParser")
           /\ emitted' = Append(emitted,
                                [pair |-> PairObject, case |-> e.name,
                                 file_names_a |-> <<name_a>>,
                                 file_names_b |-> names_b])
    /\ pair_num' = pair_num + 1
    /\ pan_pc' = "for"
    /\ UNCHANGED <<ground_truth, case_at, stops, pairVars, panFrame>>

(***************************************************************************)
(* Paths and ConfigLoader.resolve_relative_path.                           *)
(***************************************************************************)
\* os.path.isabs(path)
IsAbs(path) == path # <<>> /\ path[1] = 47

\* os.path.join(base, path) for a base that does not end in "/"
Join(base, path) == IF IsAbs(path) THEN path ELSE base \o <<47>> \o path

\* get_config_path(): the directory of the job configuration, "/c"
ConfigPath == <<47, 99>>

\* os.path.realpath(os.path.dirname(sys.argv[0])): the application directory, "/a"
AppPath == <<47, 97>>

\* "etc", the configuration subdirectory of the application
Etc == <<101, 116, 99>>

\* the places resolve_relative_path looks at for a path, in its order
Candidates(path) ==
    <<Join(ConfigPath, path), Join(AppPath, path), Join(Join(AppPath, Etc), path)>>

\* a file system with nothing in the places looked at
NoDisk == [files |-> {}, dirs |-> {}, links |-> {}]

\* the file systems a path is resolved on: every place looked at is absent,
\* a file or, for an absolute path, a directory; either none of the places
\* is reached through a symbolic link or all of them are
Disks(path) ==
    { dk \in [files : SUBSET Range(Candidates(path)),
              dirs : SUBSET Range(Candidates(path)),
              links : SUBSET Range(Candidates(path))] :
        /\ dk.files \cap dk.dirs = {}
        /\ dk.dirs # {} => IsAbs(path)
        /\ dk.links \in {{}, dk.files \cup dk.dirs} }

\* os.path.exists(path)
Exists(dk, path) == path \in dk.files \cup dk.dirs

\* os.path.isfile(path)
IsFile(dk, path) == path \in dk.files

\* os.path.realpath(path): what a symbolic link points to lies under "/t"
RealPath(dk, path) == IF path \in dk.links THEN <<47, 116>> \o path ELSE path

\* FileNotFoundError("No such file or directory: {}".format(path))
FileNotFoundError(path) ==
    [type |-> "FileNotFoundError",
     message |-> <<78, 111, 32, 115, 117, 99, 104, 32, 102, 105, 108, 101, 32, 111,
                   114, 32, 100, 105, 114, 101, 99, 116, 111, 114, 121, 58, 32>> \o path]

\* the application directory tried before the configuration directory
ResolveRelativePath_AppFirst(dk, path) ==
    IF IsAbs(path) /\ IsFile(dk, path)
    THEN [raised |-> NoError, path |-> path]
    ELSE IF Exists(dk, Join(AppPath, path))
    THEN [raised |-> NoError, path |-> Join(AppPath, path)]
    ELSE IF Exists(dk, Join(ConfigPath, path))
    THEN [raised |-> NoError, path |-> RealPath(dk, Join(ConfigPath, path))]
    ELSE IF ~Exists(dk, Join(Join(AppPath, Etc), path))
    THEN [raised |-> FileNotFoundError(path), path |-> None]
    ELSE [raised |-> NoError, path |-> RealPath(dk, Join(Join(AppPath, Etc), path))]

\* ConfigLoader.resolve_relative_path(path): the path returned or the
\* exception raised
ResolveRelativePath(dk, path) ==
    IF IsAbs(path) /\ IsFile(dk, path)
    THEN [raised |-> NoError, path |-> path]
    ELSE IF Exists(dk, Join(ConfigPath, path))
    THEN [raised |-> NoError, path |-> RealPath(dk, Join(ConfigPath, path))]
    ELSE IF Exists(dk, Join(AppPath, path))
    THEN [raised |-> NoError, path |-> Join(AppPath, path)]
    ELSE IF ~Exists(dk, Join(Join(AppPath, Etc), path))
    THEN [raised |-> FileNotFoundError(path), path |-> None]
    ELSE [raised |-> NoError, path |-> RealPath(dk, Join(Join(AppPath, Etc), path))]

(***************************************************************************)
(* Configurable: classes with properties and their instances.              *)
(***************************************************************************)
\* the names of the types an instance is asserted to have
Configurable == <<67, 111, 110, 102, 105, 103, 117, 114, 97, 98, 108, 101>>
Output == <<79, 117, 116, 112, 117, 116>>
EventHandler == <<69, 118, 101, 110, 116, 72, 97, 110, 100, 108, 101, 114>>
Aggregator == <<65, 103, 103, 114, 101, 103, 97, 116, 111, 114>>

\* the names a descriptor assigns to: "p" a property, "q" a path_property,
\* "u" no attribute of any class
PropertyNames == { <<112>>, <<113>>, <<117>> }

\* the classes descriptors name: m.W, an Output that handles events, m.O, an
\* Output that does not, m.P, a Configurable that is neither, and m.A, an
\* Aggregator that handles events; all have the properties p and q
ComponentClasses ==
    { [module |-> <<109>>, name |-> <<65>>,
       bases |-> {Configurable, Output, Aggregator, EventHandler},
       properties |-> {<<112>>, <<113>>}, path_properties |-> {<<113>>}] } \cup
    { [module |-> <<109>>, name |-> <<87>>, bases |-> {Configurable, Output, EventHandler},
       properties |-> {<<112>>, <<113>>}, path_properties |-> {<<113>>}],
      [module |-> <<109>>, name |-> <<79>>, bases |-> {Configurable, Output},
       properties |-> {<<112>>, <<113>>}, path_properties |-> {<<113>>}],
      [module |-> <<109>>, name |-> <<80>>, bases |-> {Configurable},
       properties |-> {<<112>>, <<113>>}, path_properties |-> {<<113>>}] }

\* the fully-qualified name of a class
QualifiedName(c) == c.module \o <<46>> \o c.name

\* lines 85-93: _load_class(name)
LoadClass(qualified) == CHOOSE c \in ComponentClasses : QualifiedName(c) = qualified

\* isinstance(o, t)
IsInstance(o, t) == t \in o.cls.bases

\* cls(): a new instance, no attribute set
NewInstance(c) == [cls |-> c, attrs |-> <<>>]

\* every name taken for a property
HasProperty_Always(o, n) == TRUE

\* Configurable.has_property(name)
HasProperty(o, n) == n \in o.cls.properties

\* no property taken for a path property
IsPathProperty_Never(o, n) == FALSE

\* Configurable.is_path_property(name)
IsPathProperty(o, n) == n \in o.cls.path_properties

\* KeyError("{}@{}: No such configuration property".format(class name, name))
KeyError(o, n) ==
    [type |-> "KeyError",
     message |-> o.cls.name \o <<64>> \o n \o
                 <<58, 32, 78, 111, 32, 115, 117, 99, 104, 32, 99, 111, 110, 102, 105,
                   103, 117, 114, 97, 116, 105, 111, 110, 32, 112, 114, 111, 112, 101,
                   114, 116, 121>>]

\* a value once set is kept
SetProperty_KeepFirst(o, n, v) ==
    IF ~HasProperty(o, n)
    THEN [raised |-> KeyError(o, n), obj |-> o]
    ELSE IF n \in Range(DictKeys(o.attrs))
    THEN [raised |-> NoError, obj |-> o]
    ELSE [raised |-> NoError, obj |-> [o EXCEPT !.attrs = DictSet(@, n, v)]]

\* Configurable.set_property(name, value): the exception raised and the
\* instance afterwards
SetProperty(o, n, v) ==
    IF ~HasProperty(o, n)
    THEN [raised |-> KeyError(o, n), obj |-> o]
    ELSE [raised |-> NoError, obj |-> [o EXCEPT !.attrs = DictSet(@, n, v)]]

\* ValueError("'{}.{}' is not a subclass of {}".format(module, class name, t))
ValueError(o, t) ==
    [type |-> "ValueError",
     message |-> <<39>> \o o.cls.module \o <<46>> \o o.cls.name \o
                 <<39, 32, 105, 115, 32, 110, 111, 116, 32, 97, 32, 115, 117, 98, 99,
                   108, 97, 115, 115, 32, 111, 102, 32>> \o t]

\* the assertion left out
AssertType_Never(o, t) == NoError

\* lines 174-183: _assert_type(obj, t), the exception it raises
AssertType(o, t) == IF ~IsInstance(o, t) THEN ValueError(o, t) ELSE NoError

(***************************************************************************)
(* JobExecutor._configure_instance, one step per set_property call.        *)
(***************************************************************************)
\* the largest number of inline parameters of a descriptor
MaxParameters == 2

\* the largest number of entries of an rc file
MaxRcEntries == 1

\* configured values: the strings "x" and "/x" and the number 1
Str(s) == [type |-> "str", val |-> s]
ParameterValues == { Str(<<120>>), Str(<<47, 120>>), [type |-> "int", val |-> <<1>>] }

\* the entries of parameters and of rc files; the absolute path is given to
\* the path property only
ParameterItems ==
    { it \in [key : PropertyNames, value : ParameterValues] :
        it.value = Str(<<47, 120>>) => it.key = <<113>> }

\* the dicts of at most n entries, as the sequences of their items
Dicts(n) ==
    { l \in UNION { [1..k -> ParameterItems] : k \in 0..n } :
        \A i, j \in DOMAIN l : l[i].key = l[j].key => i = j }

\* the descriptors: the rc file, if any, is named "r"
Descriptors ==
    [name : { QualifiedName(c) : c \in ComponentClasses },
     rc_file : { None, <<114>> },
     parameters : Dicts(MaxParameters)]

\* the types _configure_instance is asked to assert
AssertTypes == { None, Output }

\* where _configure_instance goes on after the rc file
AfterRc(c) == IF c.parameters # None THEN "parameters" ELSE "return"

\* where _configure_instance goes on after the assertion
AfterAssert(c) == IF c.rc_file # None THEN "rc_file" ELSE AfterRc(c)

\* a set_property call as recorded: the pass, the item as configured, the
\* value handed to set_property (None if it was not called), the file
\* system the value was resolved on, the exception and the attributes after
Assignment(pass, it, v, dk, r) ==
    [pass |-> pass, name |-> it.key, raw |-> it.value, value |-> v, disk |-> dk,
     raised |-> r.raised, attrs |-> r.obj.attrs]

FactoryIdle ==
    /\ fac_pc = "none"
    /\ cfg = None
    /\ assert_type = None
    /\ obj = None
    /\ rc_contents = None
    /\ param_at = 0
    /\ assigned = <<>>
    /\ returned = None

\* what no step of _configure_instance changes
factoryFrame ==
    <<published, outputVars, busVars, classVars, pairVars, bookVars, samplerVars, panVars, corpusVars, loadVars>>

\* lines 105-110: the class is loaded and constructed
ConfigureInstance ==
    /\ fac_pc = "none"
    /\ \E c \in Descriptors, t \in AssertTypes :
           /\ cfg' = c
           /\ assert_type' = t
           /\ obj' = NewInstance(LoadClass(c.name))
    /\ fac_pc' = "assert"
    /\ UNCHANGED <<rc_contents, param_at, assigned, raised, returned, factoryFrame>>

\* lines 111-112: the type is asserted if one is asked for
FactoryAssertType ==
    /\ fac_pc = "assert"
    /\ LET err == IF assert_type # None THEN AssertType(obj, assert_type) ELSE NoError
       IN  /\ raised' = err
           /\ fac_pc' = IF err # NoError THEN "raised" ELSE AfterAssert(cfg)
    /\ UNCHANGED <<cfg, assert_type, obj, rc_contents, param_at, assigned, returned,
                   factoryFrame>>

\* lines 114-117: the rc file is resolved and loaded
FactoryOpenRc ==
    /\ fac_pc = "rc_file"
    /\ \E dk \in Disks(cfg.rc_file) :
           LET res == ResolveRelativePath(dk, cfg.rc_file)
           IN  IF res.raised # NoError
               THEN /\ raised' = res.raised
                    /\ fac_pc' = "raised"
                    /\ UNCHANGED rc_contents
               ELSE /\ \E contents \in Dicts(MaxRcEntries) :
                           /\ rc_contents' = contents
                           /\ fac_pc' = IF contents = <<>> THEN AfterRc(cfg) ELSE "rc"
                    /\ UNCHANGED raised
    /\ UNCHANGED <<cfg, assert_type, obj, param_at, assigned, returned, factoryFrame>>

\* rc file values made absolute below the application path, if they are
\* strings for a path property
RcValue_Resolved(o, it) ==
    IF it.value.type = "str" /\ HasProperty(o, it.key) /\ IsPathProperty(o, it.key)
    THEN Str(Join(AppPath, it.value.val))
    ELSE it.value

\* line 120: the value of the rc file entry handed to set_property,
\* rc_contents[rc]
RcValue(o, it) == it.value

\* lines 119-120: one entry of the rc file is assigned
FactoryRcProperty ==
    /\ fac_pc = "rc"
    /\ LET it == rc_contents[param_at + 1]
           v == RcValue(obj, it)
           r == SetProperty(obj, it.key, v)
       IN  /\ obj' = r.obj
           /\ raised' = r.raised
           /\ assigned' = Append(assigned, Assignment("rc_file", it, v, NoDisk, r))
           /\ fac_pc' = IF r.raised # NoError THEN "raised"
                        ELSE IF param_at + 1 < Len(rc_contents) THEN "rc"
                        ELSE AfterRc(cfg)
    /\ param_at' = IF param_at + 1 < Len(rc_contents) THEN param_at + 1 ELSE 0
    /\ UNCHANGED <<cfg, assert_type, rc_contents, returned, factoryFrame>>

\* lines 122-127: one inline parameter is resolved, if it is a string for a
\* path property, and assigned
FactoryParameter ==
    /\ fac_pc = "parameters"
    /\ LET it == cfg.parameters[param_at + 1]
           is_path == /\ it.value.type = "str"
                      /\ HasProperty(obj, it.key)
                      /\ IsPathProperty(obj, it.key)
       IN  \E dk \in IF is_path THEN Disks(it.value.val) ELSE {NoDisk} :
               LET res == IF is_path THEN ResolveRelativePath(dk, it.value.val)
                          ELSE [raised |-> NoError, path |-> None]
                   v == IF is_path THEN Str(res.path) ELSE it.value
                   r == IF res.raised # NoError
                        THEN [raised |-> res.raised, obj |-> obj]
                        ELSE SetProperty(obj, it.key, v)
               IN  /\ obj' = r.obj
                   /\ raised' = r.raised
                   /\ assigned' =
                          Append(assigned,
                                 Assignment("parameters", it,
                                            IF res.raised # NoError THEN None ELSE v, dk, r))
                   /\ fac_pc' = IF r.raised # NoError THEN "raised"
                                ELSE IF param_at + 1 < Len(cfg.parameters) THEN "parameters"
                                ELSE "return"
    /\ param_at' = param_at + 1
    /\ UNCHANGED <<cfg, assert_type, rc_contents, returned, factoryFrame>>

\* line 128: the instance is returned
FactoryReturn ==
    /\ fac_pc = "return"
    /\ returned' = obj
    /\ fac_pc' = "returned"
    /\ UNCHANGED <<cfg, assert_type, obj, rc_contents, param_at, assigned, raised,
                   factoryFrame>>

(***************************************************************************)
(* JobExecutor._init_job_output, one step per access to the file system.   *)
(***************************************************************************)
\* the values int(time()) takes
Times == { 1, 2, 3 }

\* "job_" + str(int(time()))
JobId(time) == <<106, 111, 98, 95>> \o <<48 + time>>

\* the output_dir argument: none, "o" or "/o"
OutputDirArguments == { None, <<111>>, <<47, 111>> }

\* the job.output_dir directive of the configuration: "d" or "/d"
OutputDirDirectives == { <<100>>, <<47, 100>> }

\* os.path.relpath(path) of an absolute path, the working directory being "/"
RelPath(path) == Tail(path)

\* lines 70-74: the output directory of the job
OutputDir(argument, directive, id) ==
    LET chosen == IF argument = None THEN directive ELSE argument
        base == IF ~IsAbs(chosen) THEN Join(ConfigPath, chosen) ELSE chosen
    IN  RelPath(Join(base, id))

\* OSError raised by os.makedirs(output_dir)
MakedirsError(dir) == [type |-> "OSError", message |-> dir]

\* IOError("Failed to create output directory '{}', maybe it exists
\* already?".format(output_dir))
IOError(dir) ==
    [type |-> "OSError",
     message |-> <<70, 97, 105, 108, 101, 100, 32, 116, 111, 32, 99, 114, 101, 97, 116,
                   101, 32, 111, 117, 116, 112, 117, 116, 32, 100, 105, 114, 101, 99,
                   116, 111, 114, 121, 32, 39>> \o dir \o
                 <<39, 44, 32, 109, 97, 121, 98, 101, 32, 105, 116, 32, 101, 120, 105,
                   115, 116, 115, 32, 97, 108, 114, 101, 97, 100, 121, 63>>]

\* whatever is at the output path taken for a directory
NotADirectory_Never(tg) == FALSE

\* line 78: not os.path.isdir(output_dir)
NotADirectory(tg) == tg # "dir"

OutputIdle ==
    /\ job_pc = "none"
    /\ target = "absent"
    /\ job_id = None
    /\ output_dir = None
    /\ snapshot = None

\* what no step of _init_job_output changes
outputFrame ==
    <<published, factoryVars, busVars, classVars, pairVars, bookVars, samplerVars, panVars, corpusVars, loadVars>>

\* lines 69-74: the job id and the output directory are computed; the file
\* system has nothing, a file or a directory there
InitJobOutput ==
    /\ job_pc = "none"
    /\ \E time \in Times, argument \in OutputDirArguments,
          directive \in OutputDirDirectives :
           /\ job_id' = JobId(time)
           /\ output_dir' = OutputDir(argument, directive, JobId(time))
    /\ target' \in {"absent", "file", "dir"}
    /\ job_pc' = "exists"
    /\ UNCHANGED <<snapshot, raised, outputFrame>>

\* lines 75-76: the directory is made if nothing is there, which can fail
JobMakeDirs ==
    /\ job_pc = "exists"
    /\ IF target = "absent"
       THEN \/ /\ target' = "dir"
               /\ job_pc' = "isdir"
               /\ UNCHANGED raised
            \/ /\ raised' = MakedirsError(output_dir)
               /\ job_pc' = "raised"
               /\ UNCHANGED target
       ELSE /\ job_pc' = "isdir"
            /\ UNCHANGED <<target, raised>>
    /\ UNCHANGED <<job_id, output_dir, snapshot, outputFrame>>

\* lines 78-79: what is there must be a directory
JobCheckDir ==
    /\ job_pc = "isdir"
    /\ IF NotADirectory(target)
       THEN /\ raised' = IOError(output_dir)
            /\ job_pc' = "raised"
       ELSE /\ job_pc' = "save"
            /\ UNCHANGED raised
    /\ UNCHANGED <<target, job_id, output_dir, snapshot, outputFrame>>

\* lines 81-83: the configuration is saved into the directory
JobSaveConfig ==
    /\ job_pc = "save"
    /\ snapshot' = Join(output_dir, <<106, 111, 98>>)
    /\ job_pc' = "returned"
    /\ UNCHANGED <<target, job_id, output_dir, raised, outputFrame>>

(***************************************************************************)
(* EventBroadcaster and JobExecutor._subscribe_to_events.                  *)
(***************************************************************************)
\* the largest number of handlers subscribed
MaxHandlers == 2

\* the events of the framework
EventNames == { "onProgress", "onPairGenerated" }

\* the classes that publish events, with the classes they derive from
SenderTypes == { "SamplePair", "BookSampleParser", "PanParser" }

\* no class derived from another
Superclasses_Self(sender) == { sender }

\* the class itself and, for the parsers, CorpusParser
Superclasses(sender) ==
    IF sender = "SamplePair" THEN { "SamplePair" } ELSE { sender, "CorpusParser" }

\* the senders entries of an event of a descriptor: no such key, or a list
\* of class names
SendersEntries ==
    { [given |-> FALSE, list |-> <<>>],
      [given |-> TRUE, list |-> <<"CorpusParser">>],
      [given |-> TRUE, list |-> <<"SamplePair">>] }

\* the events lists of descriptors: every event at most once
EventLists ==
    { l \in UNION { [1..k -> [name : EventNames, senders : SendersEntries]] :
                      k \in 0..Cardinality(EventNames) } :
        \A i, j \in DOMAIN l : l[i].name = l[j].name => i = j }

\* the senders entry ignored
SendersOf_Ignored(ev) == [given |-> FALSE, types |-> {}]

\* lines 140-142: the senders handed to subscribe(), None without a list
SendersOf(ev) ==
    IF ev.senders.given
    THEN [given |-> TRUE, types |-> Range(ev.senders.list)]
    ELSE [given |-> FALSE, types |-> {}]

\* EventBroadcaster.subscribe(event_name, handler, senders): the registry
\* with the handler registered last
Subscribe(subs, event_name, handler, senders) ==
    Append(subs, [name |-> event_name, handler |-> handler, senders |-> senders])

\* the sender filter of a subscription admits the class that publishes
Admits(senders, sender) ==
    ~senders.given \/ Superclasses(sender) \cap senders.types # {}

\* the subscriptions a publish() call serves, in the order of registration
Matching(subs, event_name, sender) ==
    SelectSeq(subs, LAMBDA sub : sub.name = event_name /\ Admits(sub.senders, sender))

\* the handlers subscribed so far
Handlers(subs) == { subs[i].handler : i \in DOMAIN subs }

\* lines 139-143: the registry after the loop over the events from the k-th on
RECURSIVE SubscribeAll(_, _, _, _)
SubscribeAll(subs, handler, events, k) ==
    IF k > Len(events) THEN subs
    ELSE SubscribeAll(Subscribe(subs, events[k].name, handler, SendersOf(events[k])),
                      handler, events, k + 1)

BusIdle ==
    /\ subscriptions = <<>>
    /\ bus_pc = "idle"
    /\ bus_queue = <<>>
    /\ handled = <<>>
    /\ aborted = {}

\* what no step of the event bus changes
busFrame ==
    <<factoryVars, outputVars, classVars, pairVars, bookVars, samplerVars, panVars, corpusVars, loadVars>>

\* lines 130-144: _subscribe_to_events(obj, events) for a new instance; the
\* handler is known by the number of the call and by what it was given
SubscribeToEvents ==
    /\ bus_pc = "idle"
    /\ raised = NoError
    /\ Cardinality(Handlers(subscriptions)) < MaxHandlers
    /\ \E c \in ComponentClasses, events \in EventLists :
           LET o == NewInstance(c)
               handler == [id |-> Cardinality(Handlers(subscriptions)) + 1, cls |-> c.name,
                           events |-> events]
               err == AssertType(o, EventHandler)
           IN  /\ raised' = err
               /\ subscriptions' = IF err # NoError THEN subscriptions
                                   ELSE SubscribeAll(subscriptions, handler, events, 1)
    /\ UNCHANGED <<bus_pc, bus_queue, handled, aborted, published, busFrame>>

\* EventBroadcaster.publish(event_name, event, sender) is called
BusPublish ==
    /\ bus_pc = "idle"
    /\ raised = NoError
    /\ \E event_name \in EventNames, sender \in SenderTypes :
           /\ published' = Publish(published, event_name,
                                   ProgressEvent(GenerateGroupId(<<>>), 0, 0), sender)
           /\ bus_queue' = Matching(subscriptions, event_name, sender)
    /\ bus_pc' = "publish"
    /\ UNCHANGED <<subscriptions, handled, aborted, raised, busFrame>>

\* the next handler is invoked; it returns or it fails, which ends the call
BusDeliver ==
    /\ bus_pc = "publish"
    /\ bus_queue # <<>>
    /\ \E fails \in BOOLEAN :
           /\ handled' = Append(handled,
                                [call |-> Len(published),
                                 handler |-> Head(bus_queue).handler,
                                 name |-> published[Len(published)].name,
                                 sender |-> published[Len(published)].sender,
                                 failed |-> fails])
           /\ bus_queue' = IF fails THEN <<>> ELSE Tail(bus_queue)
           /\ bus_pc' = IF fails THEN "aborted" ELSE "publish"
           /\ aborted' = IF fails THEN aborted \cup {Len(published)} ELSE aborted
    /\ UNCHANGED <<subscriptions, published, raised, busFrame>>

\* publish() returns once every handler was invoked
BusReturn ==
    /\ bus_pc = "publish"
    /\ bus_queue = <<>>
    /\ bus_pc' = "returned"
    /\ UNCHANGED <<subscriptions, bus_queue, handled, aborted, published, raised, busFrame>>

(***************************************************************************)
(* JobExecutor._load_outputs and _load_aggregators: every descriptor of    *)
(* the settings list is built, subscribed to its events and appended.      *)
(***************************************************************************)
\* the largest number of descriptors of a settings list
MaxLoaded == 2

\* the descriptors of a settings list: no rc file, at most one parameter,
\* which is no path, and no events key (or an empty list) or one event
LoadDescriptors ==
    [name : { QualifiedName(c) : c \in ComponentClasses },
     rc_file : { None },
     parameters : { d \in Dicts(1) : \A i \in DOMAIN d : d[i].key # <<113>> },
     events : { l \in EventLists : Len(l) <= 1 }]

\* no capability asked of the instance
Required_Unasserted(kind) == None

\* lines 153 and 167: the capability the instance must have
Required(kind) == IF kind = "outputs" THEN Output ELSE Aggregator

\* an instance as the lists and the event bus hold it: the object built for
\* the k-th descriptor
Loaded(k, o) == [id |-> k, obj |-> o]

LoadIdle ==
    /\ load_pc = "none"
    /\ load_kind = "none"
    /\ load_list = <<>>
    /\ outputs = <<>>
    /\ aggregators = <<>>

\* what no step of the two methods changes
loadFrame2 ==
    <<published, outputVars, bus_pc, bus_queue, handled, aborted,
      classVars, pairVars, bookVars, samplerVars, panVars, corpusVars>>

\* _load_outputs(outputs) or _load_aggregators(aggs) is called
LoadCall ==
    /\ load_pc = "none"
    /\ load_kind' \in {"outputs", "aggregators"}
    /\ load_pc' = "for"
    /\ UNCHANGED <<load_list, outputs, aggregators, factoryVars, raised, subscriptions,
                   loadFrame2>>

\* lines 152-153 and 166-167: the loop takes the next descriptor and calls
\* _configure_instance, which loads and constructs the class
LoadConfigure ==
    /\ load_pc = "for"
    /\ Len(load_list) < MaxLoaded
    /\ \E c \in LoadDescriptors :
           /\ load_list' = Append(load_list, c)
           /\ cfg' = c
           /\ obj' = NewInstance(LoadClass(c.name))
    /\ assert_type' = Required(load_kind)
    /\ fac_pc' = "assert"
    /\ rc_contents' = None
    /\ param_at' = 0
    /\ assigned' = <<>>
    /\ returned' = None
    /\ load_pc' = "configure"
    /\ UNCHANGED <<load_kind, outputs, aggregators, raised, subscriptions, loadFrame2>>

\* an exception of _configure_instance leaves the method
LoadRaise ==
    /\ load_pc = "configure"
    /\ fac_pc = "raised"
    /\ load_pc' = "raised"
    /\ UNCHANGED <<load_kind, load_list, outputs, aggregators, factoryVars, raised,
                   subscriptions, loadFrame2>>

\* lines 155-156 and 169-170: the instance is subscribed to its events, if
\* it has any; _subscribe_to_events raises if it is no EventHandler
LoadSubscribe ==
    /\ load_pc = "configure"
    /\ fac_pc = "returned"
    /\ LET err == IF cfg.events # <<>> THEN AssertType(returned, EventHandler) ELSE NoError
       IN  /\ raised' = err
           /\ load_pc' = IF err # NoError THEN "raised" ELSE "append"
           /\ subscriptions' =
                  IF err # NoError THEN subscriptions
                  ELSE SubscribeAll(subscriptions, Loaded(Len(load_list), returned),
                                    cfg.events, 1)
    /\ UNCHANGED <<load_kind, load_list, outputs, aggregators, factoryVars, loadFrame2>>

\* lines 158 and 172: the instance is appended to the list of the executor
LoadAppend ==
    /\ load_pc = "append"
    /\ IF load_kind = "outputs"
       THEN /\ outputs' = Append(outputs, Loaded(Len(load_list), returned))
            /\ UNCHANGED aggregators
       ELSE /\ aggregators' = Append(aggregators, Loaded(Len(load_list), returned))
            /\ UNCHANGED outputs
    /\ load_pc' = "for"
    /\ UNCHANGED <<load_kind, load_list, factoryVars, raised, subscriptions, loadFrame2>>

\* the settings list has no more descriptors: the method returns
LoadReturn ==
    /\ load_pc = "for"
    /\ load_pc' = "returned"
    /\ UNCHANGED <<load_kind, load_list, outputs, aggregators, factoryVars, raised,
                   subscriptions, loadFrame2>>

\* the executor, the factory and the event bus at rest
JobIdle == FactoryIdle /\ OutputIdle /\ BusIdle /\ LoadIdle /\ raised = NoError

(***************************************************************************)
(* The parsers over a corpus root that may be missing and over datasets    *)
(* with documents that are not well-formed, without a text or unclassified. *)
(***************************************************************************)
\* IOError("Corpus '{}' not found".format(corpus_path)), line 117
CorpusNotFound ==
    [type |-> "OSError",
     message |-> <<67, 111, 114, 112, 117, 115, 32, 39, 39, 32, 110, 111, 116, 32, 102,
                   111, 117, 110, 100>>]

\* the root taken for a directory whatever is there
NotADir_Never(root) == FALSE

\* line 116: not os.path.isdir(corpus_path)
NotADir(root) == root # "dir"

\* a BookSampleParser whose iterator is not constructed yet
BookNew ==
    /\ book_pc = "new"
    /\ files = <<>>
    /\ authors = <<>>
    /\ iterator1 = 0
    /\ next1 = None
    /\ current_file_contents = None
    /\ iterator2 = -1
    /\ next2 = None
    /\ comp_file_names = <<>>
    /\ single_text_pairs = <<>>
    /\ pair_num = 0
    /\ progress_event = None
    /\ emitted = <<>>
    /\ stops = 0

\* lines 95-136 and 192-193: iter(parser) constructs the iterator, which
\* reads the directories of the corpus or raises when the root is missing
BookIter ==
    /\ book_pc = "new"
    /\ IF NotADir(corpus_path)
       THEN /\ iter_raised' = CorpusNotFound
            /\ book_pc' = "raised"
            /\ UNCHANGED <<files, authors, progress_event>>
       ELSE /\ \E dirs \in DirListings, sizes \in [AuthorNames -> 0..MaxFiles] :
                   /\ authors' = BuildAuthors(dirs, sizes)
                   /\ files' = BuildFiles(BuildAuthors(dirs, sizes))
                   /\ progress_event' =
                          ProgressEvent(
                              GenerateGroupId(DictKeys(BuildFiles(BuildAuthors(dirs, sizes)))),
                              0, Len(BuildFiles(BuildAuthors(dirs, sizes))))
            /\ book_pc' = "idle"
            /\ UNCHANGED iter_raised
    /\ UNCHANGED <<iterator1, next1, current_file_contents, iterator2, next2,
                   comp_file_names, single_text_pairs, pair_num, emitted, stops>>
    /\ UNCHANGED <<published, pairVars, classVars, samplerVars, panVars, corpus_path, jobVars>>

\* a sampler of class c constructed with the sample target s; docs is what
\* the listing of its datasets will return
SamplerOver(c, docs, s) ==
    /\ parser = c
    /\ sampler_pc = "start"
    /\ dataset = docs
    /\ samples = s
    /\ texts_by_portals = <<>>
    /\ texts_by_class = <<>>
    /\ processed_comp_classes = <<>>
    /\ cls1_at = 0
    /\ cls2_at = 0
    /\ pair_class = None
    /\ pair_counter = 0
    /\ drawn_a = <<>>
    /\ drawn_b = <<>>
    /\ sample_chunks_a = <<>>
    /\ sample_chunks_b = <<>>
    /\ file_names_a = <<>>
    /\ file_names_b = <<>>

\* the datasets of the given groups with at most MaxDocs documents
Datasets(groups) ==
    UNION { { BuildDataset(listing, sizes) :
                sizes \in { sz \in [groups -> 1..MaxDocs] :
                               TotalDocs(listing, sz) <= MaxDocs } } :
            listing \in GroupListings(groups) }

\* the documents at the positions bad are not well-formed
WithMalformed(docs, bad) ==
    [i \in 1..Len(docs) |-> IF i \in bad THEN Malformed(docs[i]) ELSE docs[i]]

\* the documents at the positions bare have no <mainText>
WithoutText(docs, bare) ==
    [i \in 1..Len(docs) |-> IF i \in bare THEN [docs[i] EXCEPT !.main_text = None]
                            ELSE docs[i]]

\* the well-formed documents of a dataset
WellFormed(docs) == SelectSeq(docs, LAMBDA doc : doc.well_formed)

\* a sampler over a corpus whose root may be missing and whose documents may
\* be malformed
CorpusSamplerInit(c, groups) ==
    \E docs \in Datasets(groups), bad \in SUBSET (1..MaxDocs), s \in 1..MaxSamples :
        /\ bad \subseteq 1..Len(docs)
        /\ corpus_path = "absent" => docs = <<>>
        /\ SamplerOver(c, WithMalformed(docs, bad), s)

\* SingleTextClass.UNSPECIFIED, which the class assigner returns for a
\* document it cannot classify
TEXT_UNSPECIFIED == CHOOSE m \in SingleTextClass : m.value = -1

\* a category sampler over documents some of which are unclassified and at
\* most one of which has no <mainText>, with a sample target from 0 on
CatInit ==
    \E docs \in Datasets(TextClasses \cup {TEXT_UNSPECIFIED}),
       bare \in { {} } \cup { {i} : i \in 1..MaxDocs }, s \in 0..MaxSamples :
        /\ bare \subseteq 1..Len(docs)
        /\ SamplerOver("WebisBuzzfeedCatCorpusParser", WithoutText(docs, bare), s)

\* a category sampler over classified documents with a text each, with a
\* sample target from 0 on
CatFairInit ==
    \E docs \in Datasets(TextClasses), s \in 0..MaxSamples :
        SamplerOver("WebisBuzzfeedCatCorpusParser", docs, s)

(***************************************************************************)
(* SpecClass: one comparison and one pair of hash() calls.                 *)
(***************************************************************************)
ClassIdle ==
    /\ impl = "SamplePairClass"
    /\ variant = CHOOSE m \in SingleTextClass : m.value = -1
    /\ other = PyNone
    /\ eq_result = "unset"
    /\ hash_result = "unset"

ClassInit ==
    /\ impl \in Impls
    /\ variant \in SingleTextClass
    /\ other \in Others
    /\ eq_result = "unset"
    /\ hash_result = "unset"

\* variant == other
CallEq ==
    /\ eq_result = "unset"
    /\ eq_result' = EnumEq(variant, other)
    /\ UNCHANGED <<impl, variant, other, hash_result, published, pairVars, bookVars, samplerVars, panVars, corpusVars, jobVars>>

\* hash(variant) and hash(other), as a mapping does to find a key
CallHash ==
    /\ hash_result = "unset"
    /\ other.kind # "None"
    /\ hash_result' = <<EnumHash(impl, variant), PyHash(impl, other)>>
    /\ UNCHANGED <<impl, variant, other, eq_result, published, pairVars, bookVars, samplerVars, panVars, corpusVars, jobVars>>

InitClass == ClassInit /\ PairIdle /\ BookIdle /\ SamplerIdle /\ PanIdle /\ JobIdle /\ CorpusIdle /\ published = <<>>

NextClass == CallEq \/ CallHash

SpecClass == InitClass /\ [][NextClass]_vars

(***************************************************************************)
(* SpecPair: one SamplePairImpl is constructed from arbitrary text lists   *)
(* and its pair_id is read.                                                *)
(***************************************************************************)
\* SamplePairImpl(a, b, cls, chunk_tokenizer) called with some arguments
ConstructPair ==
    /\ pair_pc = "none"
    /\ \E a \in TextLists(MaxTexts), b \in TextLists(MaxTexts), cls \in BookClass :
           PairNew(a, b, cls)
    /\ UNCHANGED <<published, classVars, samplerVars, panVars, corpusVars, jobVars, bookVars>>

InitPair == ClassIdle /\ PairIdle /\ BookIdle /\ SamplerIdle /\ PanIdle /\ JobIdle /\ CorpusIdle /\ published = <<>>

NextPair ==
    \/ ConstructPair
    \/ PairFirstEvent
    \/ PairChunkA
    \/ PairChunkB
    \/ ReadPairId

SpecPair == InitPair /\ [][NextPair]_vars

(***************************************************************************)
(* SpecBook: one BookSampleParserIterator is driven by next() calls until  *)
(* it has raised StopIteration MaxStops times.                             *)
(***************************************************************************)
InitBook == ClassIdle /\ PairIdle /\ BookInit /\ SamplerIdle /\ PanIdle /\ JobIdle /\ CorpusIdle /\ published = <<>>

NextBook ==
    \/ CallNext
    \/ NextText
    \/ NextAuthor
    \/ PairFirstEvent
    \/ PairChunkA
    \/ PairChunkB
    \/ PublishPair

SpecBook == InitBook /\ [][NextBook]_vars

(***************************************************************************)
(* SpecSampler: one of the two Webis-Buzzfeed samplers is iterated to the  *)
(* end over some corpus with some sample target.                           *)
(***************************************************************************)
InitSampler ==
    /\ ClassIdle
    /\ JobIdle /\ CorpusIdle
    /\ PairIdle
    /\ BookIdle
    /\ PanIdle
    /\ published = <<>>
    /\ \/ SamplerInit("WebisBuzzfeedAuthorshipCorpusParser", Portals)
       \/ SamplerInit("WebisBuzzfeedCatCorpusParser", TextClasses)

NextSampler ==
    \/ StratifiedLoad
    \/ StratifiedNext
    \/ StratifiedDraw
    \/ StratifiedConstruct
    \/ StratifiedPublish
    \/ CatLoad
    \/ CatNext
    \/ CatDraw
    \/ CatConstruct
    \/ CatPublish
    \/ PairFirstEvent
    \/ PairChunkA
    \/ PairChunkB

SpecSampler == InitSampler /\ [][NextSampler]_vars

(***************************************************************************)
(* SpecParsers: one of the four corpus parsers is iterated to the end.     *)
(***************************************************************************)
InitParsers ==
    /\ ClassIdle
    /\ JobIdle /\ CorpusIdle
    /\ PairIdle
    /\ published = <<>>
    /\ \/ BookInit /\ SamplerIdle /\ PanIdle
       \/ /\ BookIdle
          /\ PanIdle
          /\ \/ SamplerInit("WebisBuzzfeedAuthorshipCorpusParser", Portals)
             \/ SamplerInit("WebisBuzzfeedCatCorpusParser", TextClasses)
       \/ BookIdle /\ SamplerIdle /\ PanInit

NextParsers ==
    \/ CallNext
    \/ NextText
    \/ NextAuthor
    \/ PublishPair
    \/ StratifiedLoad
    \/ StratifiedNext
    \/ StratifiedDraw
    \/ StratifiedConstruct
    \/ StratifiedPublish
    \/ CatLoad
    \/ CatNext
    \/ CatDraw
    \/ CatConstruct
    \/ CatPublish
    \/ PanLoad
    \/ PanNext
    \/ PanPublish
    \/ PairFirstEvent
    \/ PairChunkA
    \/ PairChunkB

SpecParsers == InitParsers /\ [][NextParsers]_vars

(***************************************************************************)
(* SpecPan: PanParser iterated once over a corpus directory.               *)
(***************************************************************************)
InitPan == ClassIdle /\ PairIdle /\ BookIdle /\ SamplerIdle /\ PanInit /\ JobIdle /\ CorpusIdle /\ published = <<>>

NextPan ==
    \/ PanLoad
    \/ PanNext
    \/ PanPublish
    \/ PairFirstEvent
    \/ PairChunkA
    \/ PairChunkB

SpecPan == InitPan /\ [][NextPan]_vars

(***************************************************************************)
(* SpecFactory: one call of JobExecutor._configure_instance.               *)
(***************************************************************************)
InitFactory ==
    /\ ClassIdle
    /\ PairIdle
    /\ BookIdle
    /\ SamplerIdle
    /\ PanIdle
    /\ JobIdle /\ CorpusIdle
    /\ published = <<>>

NextFactory ==
    \/ ConfigureInstance
    \/ FactoryAssertType
    \/ FactoryOpenRc
    \/ FactoryRcProperty
    \/ FactoryParameter
    \/ FactoryReturn

SpecFactory == InitFactory /\ [][NextFactory]_vars

(***************************************************************************)
(* SpecOutput: one call of JobExecutor._init_job_output.                   *)
(***************************************************************************)
NextOutput ==
    \/ InitJobOutput
    \/ JobMakeDirs
    \/ JobCheckDir
    \/ JobSaveConfig

SpecOutput == InitFactory /\ [][NextOutput]_vars

(***************************************************************************)
(* SpecBus: handlers are subscribed, then one event is published.          *)
(***************************************************************************)
NextBus ==
    \/ SubscribeToEvents
    \/ BusPublish
    \/ BusDeliver
    \/ BusReturn

SpecBus == InitFactory /\ [][NextBus]_vars

(***************************************************************************)
(* SpecCorpus: one of the four corpus parsers is iterated over a corpus    *)
(* whose root may be missing and whose XML documents may be malformed.     *)
(***************************************************************************)
InitCorpus ==
    /\ ClassIdle
    /\ JobIdle
    /\ PairIdle
    /\ published = <<>>
    /\ iter_raised = NoError
    /\ corpus_path \in {"dir", "absent"}
    /\ \/ BookNew /\ SamplerIdle /\ PanIdle
       \/ /\ BookIdle
          /\ PanIdle
          /\ \/ CorpusSamplerInit("WebisBuzzfeedAuthorshipCorpusParser", Portals)
             \/ CorpusSamplerInit("WebisBuzzfeedCatCorpusParser", TextClasses)
       \/ /\ BookIdle
          /\ SamplerIdle
          /\ PanInit
          /\ corpus_path = "absent" => truth = None /\ case_dirs = <<>>

NextCorpus ==
    \/ BookIter
    \/ CallNext
    \/ NextText
    \/ NextAuthor
    \/ PublishPair
    \/ StratifiedLoad
    \/ StratifiedNext
    \/ StratifiedDraw
    \/ StratifiedConstruct
    \/ StratifiedPublish
    \/ CatLoad
    \/ CatNext
    \/ CatDraw
    \/ CatConstruct
    \/ CatPublish
    \/ PanLoad
    \/ PanNext
    \/ PanPublish
    \/ PairFirstEvent
    \/ PairChunkA
    \/ PairChunkB

SpecCorpus == InitCorpus /\ [][NextCorpus]_vars

(***************************************************************************)
(* SpecCat: the category sampler is iterated to the end.  SpecCatFair is   *)
(* the sampler over classified documents with every step taken if it       *)
(* stays possible, and with random.randint fair: while some pair of        *)
(* indices is accepted, such a pair is drawn in the end.                   *)
(***************************************************************************)
InitCat ==
    /\ ClassIdle
    /\ JobIdle /\ CorpusIdle
    /\ PairIdle
    /\ BookIdle
    /\ PanIdle
    /\ published = <<>>
    /\ CatInit

NextCat ==
    \/ CatLoad
    \/ CatNext
    \/ CatDraw
    \/ CatConstruct
    \/ CatPublish
    \/ PairFirstEvent
    \/ PairChunkA
    \/ PairChunkB

SpecCat == InitCat /\ [][NextCat]_vars

InitCatFair ==
    /\ ClassIdle
    /\ JobIdle /\ CorpusIdle
    /\ PairIdle
    /\ BookIdle
    /\ PanIdle
    /\ published = <<>>
    /\ CatFairInit

SpecCatFair ==
    /\ InitCatFair
    /\ [][NextCat]_vars
    /\ WF_vars(CatLoad)
    /\ WF_vars(CatNext)
    /\ WF_vars(CatDraw)
    /\ WF_vars(CatConstruct)
    /\ WF_vars(CatPublish)
    /\ WF_vars(PairFirstEvent)
    /\ WF_vars(PairChunkA)
    /\ WF_vars(PairChunkB)

(***************************************************************************)
(* SpecLoad: one call of _load_outputs or of _load_aggregators.            *)
(***************************************************************************)
NextLoad ==
    \/ LoadCall
    \/ LoadConfigure
    \/ FactoryAssertType
    \/ FactoryParameter
    \/ FactoryReturn
    \/ LoadRaise
    \/ LoadSubscribe
    \/ LoadAppend
    \/ LoadReturn

SpecLoad == InitFactory /\ [][NextLoad]_vars

(***************************************************************************)
(* C1: for every member v and every boolean b, v == b is true iff v is not *)
(* UNSPECIFIED and the truthiness of v's code equals b.                    *)
(***************************************************************************)
C1_BoolEquality ==
    (eq_result # "unset" /\ other.kind = "bool")
        => (Truthy(eq_result)
                <=> (variant.value # -1 /\ PyBoolOf(variant.value) = other.b))

(***************************************************************************)
(* C2: whenever a member equals a string, the member and the string have   *)
(* the same hash.                                                          *)
(***************************************************************************)
C2_HashConsistentWithStr ==
    (hash_result # "unset" /\ other.kind = "str" /\ Truthy(EnumEq(variant, other)))
        => hash_result[1] = hash_result[2]

\* every reordering of a list
PermSeqs(l) ==
    { [i \in 1..Len(l) |-> l[p[i]]] :
        p \in { q \in [1..Len(l) -> 1..Len(l)] :
                  \A i, j \in 1..Len(l) : q[i] = q[j] => i = j } }

\* how often text x occurs in list l
Occurrences(x, l) == Cardinality({ i \in 1..Len(l) : l[i] = x })

\* l and m hold the same texts the same number of times
SameMultiset(l, m) ==
    \A x \in Texts : Occurrences(x, l) = Occurrences(x, m)

\* the onProgress events published by the pair under construction
PairProgressEvents ==
    { i \in 1..Len(published) :
        /\ published[i].name = "onProgress"
        /\ published[i].sender = "SamplePair" }

(***************************************************************************)
(* C3: the pair_id of a pair is the pair_id of every pair built from the   *)
(* same texts in another order within a and within b, and every read of    *)
(* pair_id on one pair returns the same value.                             *)
(***************************************************************************)
C3_PairIdPermutationInvariant ==
    pair_id # None =>
        /\ \A a2 \in PermSeqs(pair_a), b2 \in PermSeqs(pair_b) :
               PairIdValue(None, a2, b2) = pair_id
        /\ \A i \in 1..Len(reads) : reads[i] = pair_id
        /\ pair_event.group_id = GenerateGroupId(<<pair_id>>)

\* a pair whose side a is given out of order has been read twice
C3_Witness ==
    /\ Len(reads) >= 2
    /\ Len(pair_a) >= 2
    /\ StrLess(pair_a[2], pair_a[1])

(***************************************************************************)
(* C4: two pairs whose multisets of texts on side a or on side b differ    *)
(* never have the same pair_id (the hash taken as collision-free).         *)
(***************************************************************************)
C4_PairIdDistinguishesContent ==
    pair_id # None =>
        \A a2 \in TextLists(MaxTexts), b2 \in TextLists(MaxTexts) :
            (~SameMultiset(a2, pair_a) \/ ~SameMultiset(b2, pair_b))
                => PairIdValue(None, a2, b2) # pair_id

(***************************************************************************)
(* C5: a pair constructed from k texts in total has published exactly k    *)
(* onProgress events when its construction completes.                      *)
(***************************************************************************)
C5_ExactlyKProgressEvents ==
    pair_pc = "done" =>
        Cardinality(PairProgressEvents) = Len(pair_a) + Len(pair_b)

(***************************************************************************)
(* C5 as amended: a pair constructed from k texts in total has published   *)
(* exactly k + 1 onProgress events when its construction completes: one    *)
(* with count 0 before the first text and one after each text.             *)
(***************************************************************************)
C5_KPlusOneProgressEvents ==
    pair_pc = "done" =>
        /\ Cardinality(PairProgressEvents) = Len(pair_a) + Len(pair_b) + 1
        /\ published[1].event.serial = 0

\* a pair with texts on both sides has been constructed
C5_Witness ==
    /\ pair_pc = "done"
    /\ Len(pair_a) >= 1
    /\ Len(pair_b) >= 2


\* the positions in the log of the onProgress events of group g
ProgressOf(g) ==
    { i \in 1..Len(published) :
        published[i].name = "onProgress" /\ published[i].event.group_id = g }

\* the groups of the onProgress events in the log
ProgressGroups ==
    { published[i].event.group_id :
        i \in { j \in 1..Len(published) : published[j].name = "onProgress" } }

(***************************************************************************)
(* C6: within one progress group, from each published event to the next    *)
(* the count increases by exactly one, and it never exceeds the total;     *)
(* also when next() is called again on an exhausted iterator.              *)
(***************************************************************************)
C6_ProgressCountsByOne ==
    \A g \in ProgressGroups :
        \A i, j \in ProgressOf(g) :
            /\ published[i].event.serial <= published[i].event.events_total
            /\ (i < j /\ ~\E k \in ProgressOf(g) : i < k /\ k < j)
                   => published[j].event.serial = published[i].event.serial + 1

(***************************************************************************)
(* C7: in every emitted pair the primary file is not among its comparison  *)
(* files, and the comparison files are exactly the files of the comparison *)
(* author except the primary file.                                         *)
(***************************************************************************)
C7_NoSelfComparison ==
    \A i \in 1..Len(emitted) :
        /\ emitted[i].primary \notin Range(emitted[i].comparison)
        /\ Range(emitted[i].comparison)
               = Range(DictGet(authors, emitted[i].author)) \ {emitted[i].primary}
        /\ Len(emitted[i].comparison)
               = Cardinality(Range(DictGet(authors, emitted[i].author)) \ {emitted[i].primary})

\* a pair of a file with the other file of its own author has been emitted
C7_Witness ==
    \E i \in 1..Len(emitted) :
        /\ DictGet(files, emitted[i].primary) = emitted[i].author
        /\ Len(emitted[i].comparison) >= 1

\* the emitted pairs of file f with file g as the only comparison file, or
\* of g with f
SinglePairsOf(f, g) ==
    { i \in 1..Len(emitted) :
        /\ Len(emitted[i].comparison) = 1
        /\ {emitted[i].primary, emitted[i].comparison[1]} = {f, g} }

(***************************************************************************)
(* C8: for two distinct files f and g, at most one emitted pair has one of *)
(* them as primary file and the other as its only comparison file.         *)
(***************************************************************************)
C8_SinglePairAtMostOnce ==
    \A f, g \in Range(DictKeys(files)) :
        f # g => Cardinality(SinglePairsOf(f, g)) <= 1

\* the pair of f with g alone was emitted, and the combination of g with the
\* author of f, which has f alone to compare with, has just been skipped
C8_Witness ==
    /\ book_pc \in {"author", "text"}
    /\ next2 # None
    /\ comp_file_names # <<>>
    /\ \E i \in 1..Len(emitted) :
           /\ emitted[i].comparison = <<next1>>
           /\ comp_file_names = <<emitted[i].primary>>
           /\ next2 = DictGet(files, emitted[i].primary)

\* the authors that have exactly one text file
SingleTextAuthors ==
    { a \in Range(DictKeys(authors)) : Len(DictGet(authors, a)) = 1 }

(***************************************************************************)
(* C9: after a full iteration, for every two distinct authors with exactly *)
(* one text file each, the pair of their two files has been emitted        *)
(* exactly once.                                                           *)
(***************************************************************************)
C9_SingleTextAuthorsOnce ==
    stops >= 1 =>
        \A a, b2 \in SingleTextAuthors :
            a # b2 =>
                Cardinality(SinglePairsOf(DictGet(authors, a)[1],
                                          DictGet(authors, b2)[1])) = 1

\* a corpus of three single-text authors has been iterated to the end
C9_Witness ==
    /\ stops >= 1
    /\ Cardinality(SingleTextAuthors) = 3
    /\ Len(emitted) = 3

(***************************************************************************)
(* C10: every emitted pair is labelled SAME_AUTHOR if the author of its    *)
(* primary file is the comparison author and DIFFERENT_AUTHORS otherwise,  *)
(* never UNSPECIFIED.                                                      *)
(***************************************************************************)
C10_Labelling ==
    \A i \in 1..Len(emitted) :
        /\ emitted[i].pair.cls \in {SAME_AUTHOR, DIFFERENT_AUTHORS}
        /\ emitted[i].pair.cls = SAME_AUTHOR
               <=> DictGet(files, emitted[i].primary) = emitted[i].author

\* a pair of each label has been emitted
C10_Witness ==
    /\ \E i \in 1..Len(emitted) : emitted[i].pair.cls = SAME_AUTHOR
    /\ \E i \in 1..Len(emitted) : emitted[i].pair.cls = DIFFERENT_AUTHORS

\* the files of author d, when d is one of the corpus's directories
FilesOf(d) == IF d \in Range(DictKeys(authors)) THEN DictGet(authors, d) ELSE <<>>

\* the corpus is author A with two files and author B with one, nothing else
ScenarioCorpus ==
    /\ Range(DictKeys(authors)) = {<<65>>, <<66>>}
    /\ Len(FilesOf(<<65>>)) = 2
    /\ Len(FilesOf(<<66>>)) = 1

\* the emitted pairs with primary file f, comparison files c and class k
EmittedAs(f, c, k) ==
    { i \in 1..Len(emitted) :
        /\ emitted[i].primary = f
        /\ emitted[i].comparison = c
        /\ emitted[i].pair.cls = k }

(***************************************************************************)
(* C11: for the corpus A = {a1, a2}, B = {b1}, in either listing order, a  *)
(* full iteration emits exactly one SAME_AUTHOR pair of a1 and a2, one     *)
(* DIFFERENT_AUTHORS pair of a1 with {b1} and one of a2 with {b1}, no pair *)
(* of b1 with author B, at most one pair of b1 with author A, which is     *)
(* DIFFERENT_AUTHORS, and no other pair.                                   *)
(***************************************************************************)
C11_Scenario ==
    (stops >= 1 /\ ScenarioCorpus) =>
        LET a1 == FilePath(<<65>>, 1)
            a2 == FilePath(<<65>>, 2)
            b1 == FilePath(<<66>>, 1)
            same == EmittedAs(a1, <<a2>>, SAME_AUTHOR) \cup EmittedAs(a2, <<a1>>, SAME_AUTHOR)
            a1b == EmittedAs(a1, <<b1>>, DIFFERENT_AUTHORS)
            a2b == EmittedAs(a2, <<b1>>, DIFFERENT_AUTHORS)
            ba == EmittedAs(b1, <<a1, a2>>, DIFFERENT_AUTHORS)
        IN  /\ Cardinality(same) = 1
            /\ Cardinality(a1b) = 1
            /\ Cardinality(a2b) = 1
            /\ Cardinality(ba) <= 1
            /\ \A i \in 1..Len(emitted) :
                   ~(emitted[i].primary = b1 /\ emitted[i].author = <<66>>)
            /\ 1..Len(emitted) = same \cup a1b \cup a2b \cup ba

\* the scenario corpus, listed with B before A, has been iterated to the end
C11_Witness ==
    /\ stops >= 1
    /\ ScenarioCorpus
    /\ authors[1].key = <<66>>
    /\ Len(emitted) >= 3

\* the positions in the log of the parser's own onProgress events
ParserProgressEvents ==
    { i \in 1..Len(published) :
        /\ published[i].name = "onProgress"
        /\ published[i].sender = "BookSampleParser" }

(***************************************************************************)
(* C12: when a complete iteration of a corpus with n text files has ended, *)
(* exactly n parser-level onProgress events have been published.           *)
(***************************************************************************)
C12_OneProgressEventPerFile ==
    stops = 1 => Cardinality(ParserProgressEvents) = Len(files)

(***************************************************************************)
(* C12 as amended: when a complete iteration of a corpus with n text files *)
(* has ended, exactly n + 1 parser-level onProgress events have been       *)
(* published, with the counts 0, 1, ..., n: one before each file is read   *)
(* and one by the call that signals the end of the iteration.              *)
(***************************************************************************)
C12_ProgressEventsPerScan ==
    stops = 1 =>
        /\ Cardinality(ParserProgressEvents) = Len(files) + 1
        /\ \A i \in ParserProgressEvents :
               published[i].event.serial
                   = Cardinality({ j \in ParserProgressEvents : j < i })

\* a corpus of at least three files has been iterated to the end
C12_Witness ==
    /\ stops = 1
    /\ Len(files) >= 3

\* the positions in the log of the onPairGenerated events, in order
RECURSIVE PairEventsFrom(_)
PairEventsFrom(i) ==
    IF i > Len(published) THEN <<>>
    ELSE IF published[i].name = "onPairGenerated"
         THEN <<i>> \o PairEventsFrom(i + 1)
         ELSE PairEventsFrom(i + 1)
PairEvents == PairEventsFrom(1)

(***************************************************************************)
(* C13: with each of the four parsers, the onPairGenerated events and the  *)
(* emitted pairs correspond one to one in order: the k-th event was        *)
(* published for the k-th emitted pair, none for a skipped or deduplicated *)
(* combination, and its sequence number is k - 1.                          *)
(***************************************************************************)
C13_OneEventPerPair ==
    /\ Len(PairEvents) = Len(emitted)
    /\ \A k \in 1..Len(PairEvents) :
           /\ published[PairEvents[k]].event.serial = k - 1
           /\ published[PairEvents[k]].event.pair = emitted[k].pair

\* the category sampler has emitted two pairs and skipped a combination
C13_Witness ==
    /\ parser = "WebisBuzzfeedCatCorpusParser"
    /\ sampler_pc = "done"
    /\ Len(emitted) >= 2
    /\ Len(processed_comp_classes) > Len(emitted)

\* how many documents of the datasets are of group g
GroupSize(g) == Cardinality({ i \in 1..Len(dataset) : dataset[i].group = g })

\* the files named on either side of the emitted pairs and of their events
FilesInPairs ==
    UNION { Range(emitted[i].file_names_a) \cup Range(emitted[i].file_names_b) :
              i \in 1..Len(emitted) }
    \cup
    UNION { Range(published[i].event.files_a) \cup Range(published[i].event.files_b) :
              i \in { j \in 1..Len(published) : published[j].name = "onPairGenerated" } }

\* the group of the document with path f
GroupOfFile(f) == dataset[CHOOSE i \in 1..Len(dataset) : dataset[i].file_path = f].group

(***************************************************************************)
(* C14: the stratified sampler discards every portal with fewer documents  *)
(* than the threshold: no emitted pair and no onPairGenerated event names  *)
(* a document of such a portal on either side.                             *)
(***************************************************************************)
C14_SmallPortalsDiscarded ==
    parser = "WebisBuzzfeedAuthorshipCorpusParser" =>
        \A f \in FilesInPairs :
            GroupSize(GroupOfFile(f)) >= MinPortalTexts

\* a corpus with a portal below the threshold was sampled to the end
C14_Witness ==
    /\ parser = "WebisBuzzfeedAuthorshipCorpusParser"
    /\ sampler_pc = "done"
    /\ Len(emitted) >= 1
    /\ \E p \in Portals : GroupSize(p) >= 1 /\ GroupSize(p) < MinPortalTexts

(***************************************************************************)
(* C15: in both samplers, at every step of the sampling loop and in every  *)
(* emitted pair, the number of index pairs drawn for one pair of groups is *)
(* at most the sample target, also when drawn indices were reset.          *)
(***************************************************************************)
C15_DrawnAtMostSamples ==
    parser # "none" =>
        /\ pair_counter <= samples
        /\ Len(sample_chunks_a) <= samples
        /\ Len(sample_chunks_b) <= samples
        /\ \A i \in 1..Len(emitted) :
               /\ emitted[i].pair_counter <= samples
               /\ Len(emitted[i].file_names_a) <= samples
               /\ Len(emitted[i].file_names_b) <= samples

\* a pair was emitted for which drawn indices had been reset
C15_Witness ==
    /\ parser = "WebisBuzzfeedAuthorshipCorpusParser"
    /\ \E i \in 1..Len(emitted) :
           /\ emitted[i].pair_counter >= 2
           /\ emitted[i].pair_counter > Len(emitted[i].drawn_a)

\* no element occurs twice in the list
NoRepeat(l) == \A i, j \in 1..Len(l) : l[i] = l[j] => i = j

(***************************************************************************)
(* C16: in both samplers, while a group is compared with itself, the       *)
(* indices drawn on side a and those drawn on side b are disjoint and no   *)
(* index is drawn twice, at every step of the loop and in the emitted pair.*)
(***************************************************************************)
C16_SelfComparisonDisjoint ==
    /\ (sampler_pc \in {"loop", "construct", "pair"} /\ cls1_at = cls2_at) =>
           /\ Range(drawn_a) \cap Range(drawn_b) = {}
           /\ NoRepeat(drawn_a \o drawn_b)
           /\ NoRepeat(file_names_a \o file_names_b)
    /\ \A i \in 1..Len(emitted) :
           emitted[i].cls1 = emitted[i].cls2 =>
               /\ Range(emitted[i].drawn_a) \cap Range(emitted[i].drawn_b) = {}
               /\ NoRepeat(emitted[i].drawn_a \o emitted[i].drawn_b)
               /\ NoRepeat(emitted[i].file_names_a \o emitted[i].file_names_b)

\* a sampler has emitted a self-comparison made of two draws
C16_Witness ==
    /\ parser # "none"
    /\ \E i \in 1..Len(emitted) :
           /\ emitted[i].cls1 = emitted[i].cls2
           /\ Len(emitted[i].drawn_a) = 2
           /\ Len(emitted[i].drawn_b) = 2

Min(x, y) == IF x <= y THEN x ELSE y

(***************************************************************************)
(* C17: a self-comparison pair of the stratified sampler never contains    *)
(* more than floor(samples / 2) drawn index pairs.                         *)
(***************************************************************************)
C17_SelfStopsAtHalfSamples ==
    parser = "WebisBuzzfeedAuthorshipCorpusParser" =>
        \A i \in 1..Len(emitted) :
            emitted[i].cls1 = emitted[i].cls2 =>
                emitted[i].pair_counter <= samples \div 2

(***************************************************************************)
(* C17 as amended: in a self-comparison of a portal with n documents the   *)
(* stratified sampler stops drawing once floor(n / 2) draws have been      *)
(* made, or samples draws if that is fewer: the emitted pair contains      *)
(* exactly min(samples, floor(n / 2)) drawn index pairs.                   *)
(***************************************************************************)
C17_SelfStopsAtHalfPool ==
    parser = "WebisBuzzfeedAuthorshipCorpusParser" =>
        /\ (sampler_pc \in {"loop", "construct", "pair"} /\ cls1_at = cls2_at) =>
               pair_counter <= Min(samples, Len(texts_by_portals[cls1_at].value) \div 2)
        /\ \A i \in 1..Len(emitted) :
               emitted[i].cls1 = emitted[i].cls2 =>
                   /\ emitted[i].pair_counter
                          = Min(samples, emitted[i].num_texts1 \div 2)
                   /\ Len(emitted[i].file_names_a) = emitted[i].pair_counter
                   /\ Len(emitted[i].file_names_b) = emitted[i].pair_counter

\* a self-comparison was emitted with more than floor(samples / 2) draws
C17_Witness ==
    /\ parser = "WebisBuzzfeedAuthorshipCorpusParser"
    /\ \E i \in 1..Len(emitted) :
           /\ emitted[i].cls1 = emitted[i].cls2
           /\ emitted[i].num_texts1 >= 4
           /\ emitted[i].pair_counter > samples \div 2

(***************************************************************************)
(* C18: for two different portals the stratified sampler's loop never ends *)
(* with fewer than floor(samples / 2) drawn index pairs, also when both    *)
(* pools are exhausted at the same step.                                   *)
(***************************************************************************)
C18_OversamplingReachesHalf ==
    parser = "WebisBuzzfeedAuthorshipCorpusParser" =>
        \A i \in 1..Len(emitted) :
            emitted[i].cls1 # emitted[i].cls2 =>
                emitted[i].pair_counter >= samples \div 2

(***************************************************************************)
(* C19: over an iteration of the category sampler, an unordered            *)
(* combination {c1, c2} of classes appears in at most one emitted pair.    *)
(***************************************************************************)
C19_CombinationOnce ==
    parser = "WebisBuzzfeedCatCorpusParser" =>
        \A i, j \in 1..Len(emitted) :
            {emitted[i].cls1, emitted[i].cls2} = {emitted[j].cls1, emitted[j].cls2}
                => i = j

\* a full iteration has visited two classes in both orders and emitted their pair
C19_Witness ==
    /\ parser = "WebisBuzzfeedCatCorpusParser"
    /\ sampler_pc = "done"
    /\ Len(emitted) >= 2
    /\ \E i \in 1..Len(emitted) : emitted[i].cls1 # emitted[i].cls2

\* the name 'c1_c2' is in the pair-class enumeration
AllowListed(c1, c2) == \E m \in PairClass : m.name = c1.name \o <<95>> \o c2.name

\* the emitted pairs and the onPairGenerated events of the combination (c1, c2)
PairsOf(c1, c2) ==
    { i \in 1..Len(emitted) : emitted[i].cls1 = c1 /\ emitted[i].cls2 = c2 }
EventsOf(c1, c2) ==
    { i \in 1..Len(published) :
        /\ published[i].name = "onPairGenerated"
        /\ published[i].event.pair.cls # None
        /\ published[i].event.pair.cls.name = c1.name \o <<95>> \o c2.name }

\* the loops of the category sampler have left the combination at <<i, j>>
Left(i, j) ==
    \/ sampler_pc = "done"
    \/ cls1_at > i
    \/ cls1_at = i /\ cls2_at > j
    \/ cls1_at = i /\ cls2_at = j /\ sampler_pc = "for"

RECURSIVE WordsFrom(_, _, _)
WordsFrom(s, acc, cur) ==
    IF s = <<>> THEN IF cur = <<>> THEN acc ELSE Append(acc, cur)
    ELSE IF s[1] \in Whitespace
         THEN WordsFrom(Tail(s), IF cur = <<>> THEN acc ELSE Append(acc, cur), <<>>)
         ELSE WordsFrom(Tail(s), acc, Append(cur, s[1]))

Words(s) == WordsFrom(s, <<>>, <<>>)

\* the lines of truth.txt that are two words, the first being the case
LinesNaming(case) ==
    IF truth = None THEN {}
    ELSE { i \in DOMAIN truth : Len(Words(truth[i])) = 2 /\ Words(truth[i])[1] = case }

\* the only line naming the case is the case, one blank and the letter, with
\* or without the end of the line
TruthLineIs(case, letter) ==
    \E i \in LinesNaming(case) :
        /\ LinesNaming(case) = {i}
        /\ truth[i] \in { case \o <<32>> \o letter, case \o <<32>> \o letter \o <<Newline>> }

PanEmitted == IF pan_pc = "none" THEN {} ELSE DOMAIN emitted

C21_Labelling ==
    \A k \in PanEmitted :
        LET case == emitted[k].case
            cls == emitted[k].pair.cls
        IN  /\ TruthLineIs(case, <<89>>) => cls = SAME_AUTHOR
            /\ TruthLineIs(case, <<78>>) => cls = DIFFERENT_AUTHORS
            /\ LinesNaming(case) = {} => cls = UNSPECIFIED

\* one corpus gave a pair labelled from its line 'X Y' or 'X N' and a pair of
\* a case that truth.txt does not name
C21_Witness ==
    \E k, j \in PanEmitted :
        /\ \/ TruthLineIs(emitted[k].case, <<89>>) /\ emitted[k].pair.cls = SAME_AUTHOR
           \/ TruthLineIs(emitted[k].case, <<78>>) /\ emitted[k].pair.cls = DIFFERENT_AUTHORS
        /\ truth # None
        /\ LinesNaming(emitted[j].case) = {}
        /\ emitted[j].pair.cls = UNSPECIFIED

(***************************************************************************)
(* C22: the labels are those the lines of exactly two whitespace-delimited *)
(* tokens give, every other line being as if absent; a line '<case> <Y|N>' *)
(* with blanks before or after it counts as a line of two tokens.          *)
(***************************************************************************)
\* the last of a set of line numbers
LastOf(S) == CHOOSE i \in S : \A j \in S : j <= i

C22_TwoTokenLines ==
    \A k \in PanEmitted :
        LET named == LinesNaming(emitted[k].case)
        IN  emitted[k].pair.cls =
                IF named = {} THEN UNSPECIFIED
                ELSE IF Upper(Words(truth[LastOf(named)])[2]) = <<89>>
                     THEN SAME_AUTHOR ELSE DIFFERENT_AUTHORS

(***************************************************************************)
(* C23: once the corpus directory is read, exactly one pair was emitted    *)
(* for every case directory with unknown.txt and known01.txt, side a from  *)
(* unknown.txt alone and side b from all files known??.txt, and no pair    *)
(* for anything else.                                                      *)
(***************************************************************************)
\* the pairs emitted for a case
PairsOfCase(name) == { k \in PanEmitted : emitted[k].case = name }

\* the chunks of a list of texts
RECURSIVE ChunksOf(_)
ChunksOf(texts) ==
    IF texts = <<>> THEN <<>> ELSE Tokenize(texts[1]) \o ChunksOf(Tail(texts))

\* pair k has unknown.txt of the entry on side a and its known files on side b
SidesOfCase(e, k) ==
    /\ emitted[k].file_names_a = <<CaseFile(e.name, 0)>>
    /\ emitted[k].pair.chunks_a = ChunksOf(<<CaseText(e.name, 0)>>)
    /\ emitted[k].file_names_b = [i \in 1..Len(e.known) |-> CaseFile(e.name, e.known[i])]
    /\ emitted[k].pair.chunks_b = ChunksOf([i \in 1..Len(e.known) |-> CaseText(e.name, e.known[i])])

\* one pair for every entry of the corpus directory that is valid, none for
\* the others
OnePairPerCase(valid(_)) ==
    pan_pc = "done" =>
        /\ \A i \in DOMAIN case_dirs :
               LET e == case_dirs[i]
               IN  IF valid(e)
                   THEN \E k \in PanEmitted : PairsOfCase(e.name) = {k} /\ SidesOfCase(e, k)
                   ELSE PairsOfCase(e.name) = {}
        /\ \A k \in PanEmitted : \E i \in DOMAIN case_dirs : case_dirs[i].name = emitted[k].case

\* a directory with unknown.txt and known01.txt
HasKnown01(e) == e.isdir /\ e.unknown /\ 1 \in Range(e.known)

\* a directory with unknown.txt and any file known??.txt
HasAnyKnown(e) == e.isdir /\ e.unknown /\ e.known # <<>>

C23_OnePairPerCaseWithKnown01 == OnePairPerCase(HasKnown01)

\* the claim as stated: known01.txt is not needed
C23_OnePairPerCaseWithAnyKnown == OnePairPerCase(HasAnyKnown)

\* a corpus was read that has a case with two known files, which gave a
\* pair, and a case with unknown.txt and known02.txt only, which gave none
C23_Witness ==
    /\ pan_pc = "done"
    /\ \E i, j \in DOMAIN case_dirs :
           /\ HasKnown01(case_dirs[i])
           /\ Len(case_dirs[i].known) = 2
           /\ \E k \in PanEmitted : PairsOfCase(case_dirs[i].name) = {k}
           /\ HasAnyKnown(case_dirs[j])
           /\ ~HasKnown01(case_dirs[j])
           /\ PairsOfCase(case_dirs[j].name) = {}

(***************************************************************************)
(* C24: when a type is asserted that the instance does not have, the call  *)
(* raises ValueError (TypeMismatch) naming the class and the type, no      *)
(* property of the rc file or of the parameters was assigned before, and   *)
(* no instance is returned.                                                *)
(***************************************************************************)
\* the text holds the part
Contains(s, part) ==
    \E i \in 0..(Len(s) - Len(part)) : SubSeq(s, i + 1, i + Len(part)) = part

C24_TypeMismatch ==
    (/\ fac_pc \notin {"none", "assert"}
     /\ assert_type # None
     /\ assert_type \notin obj.cls.bases) =>
        /\ fac_pc = "raised"
        /\ raised.type = "ValueError"
        /\ Contains(raised.message, QualifiedName(obj.cls))
        /\ Contains(raised.message, assert_type)
        /\ assigned = <<>>
        /\ obj.attrs = <<>>
        /\ returned = None

\* the assertion failed for a descriptor with an rc file and inline parameters
C24_Witness ==
    /\ fac_pc = "raised"
    /\ raised.type = "ValueError"
    /\ cfg.rc_file # None
    /\ cfg.parameters # <<>>

(***************************************************************************)
(* C25: every assignment from the rc file precedes every assignment from   *)
(* the inline parameters; the returned instance holds, for a property      *)
(* named inline, the value of the inline pass, and for a property named in *)
(* the rc file only, the value of the rc file.                             *)
(***************************************************************************)
\* the positions of a name in a dict
KeysAt(dict, n) == { i \in DOMAIN dict : dict[i].key = n }

\* the value the inline pass handed to set_property for a name
InlineValue(n) ==
    LET k == CHOOSE k \in DOMAIN assigned :
                 assigned[k].pass = "parameters" /\ assigned[k].name = n
    IN  assigned[k].value

C25_InjectionOrder ==
    /\ \A i, j \in DOMAIN assigned :
           assigned[i].pass = "rc_file" /\ assigned[j].pass = "parameters" => i < j
    /\ fac_pc = "returned" =>
           \A n \in PropertyNames :
               /\ \A i \in KeysAt(cfg.parameters, n) :
                      /\ DictGet(returned.attrs, n) = InlineValue(n)
                      /\ (cfg.parameters[i].value.type # "str" \/ n \notin returned.cls.path_properties)
                             => DictGet(returned.attrs, n) = cfg.parameters[i].value
               /\ KeysAt(cfg.parameters, n) = {} =>
                      \A i \in KeysAt(rc_contents, n) :
                          DictGet(returned.attrs, n) = rc_contents[i].value

\* an instance was returned whose property has the inline value, the rc
\* file giving another value for it
C25_Witness ==
    /\ fac_pc = "returned"
    /\ \E i \in DOMAIN cfg.parameters, j \in DOMAIN rc_contents :
           /\ cfg.parameters[i].key = rc_contents[j].key
           /\ cfg.parameters[i].value # rc_contents[j].value
           /\ cfg.parameters[i].value.type = "int"
           /\ DictGet(returned.attrs, cfg.parameters[i].key) = cfg.parameters[i].value

(***************************************************************************)
(* C26: an assignment to a name that is no property of the class, in       *)
(* either pass, raises KeyError (NoSuchProperty) and leaves the attributes *)
(* as they were; for such an inline name the exception is KeyError         *)
(* whatever the value, never FileNotFoundError.                            *)
(***************************************************************************)
\* the attributes before the k-th assignment
AttrsBefore(k) == IF k = 1 THEN <<>> ELSE assigned[k - 1].attrs

C26_UnknownProperty ==
    \A k \in DOMAIN assigned :
        assigned[k].name \notin obj.cls.properties =>
            /\ assigned[k].raised.type = "KeyError"
            /\ assigned[k].attrs = AttrsBefore(k)
            /\ k = Len(assigned)
            /\ fac_pc = "raised"
            /\ raised = assigned[k].raised
            /\ obj.attrs = AttrsBefore(k)
            /\ returned = None

\* an inline string for a name that is no property raised KeyError after
\* another property was assigned
C26_Witness ==
    \E k \in DOMAIN assigned :
        /\ k > 1
        /\ assigned[k].pass = "parameters"
        /\ assigned[k].name \notin obj.cls.properties
        /\ assigned[k].raw.type = "str"
        /\ assigned[k].raised.type = "KeyError"
        /\ obj.attrs # <<>>

(***************************************************************************)
(* C27: an inline string for a path property is resolved before it is      *)
(* assigned.  A relative string becomes the first existing of: the path    *)
(* under the configuration directory (canonical), under the application    *)
(* directory, under its etc directory (canonical), so the value is an      *)
(* absolute path and not the string; an absolute string becomes the path   *)
(* itself if that exists (canonical unless it is a regular file).  When    *)
(* none of them exists FileNotFoundError is raised and nothing is assigned.*)
(***************************************************************************)
\* the inline assignments of a string to a path property
PathAssignments ==
    { k \in DOMAIN assigned :
        /\ assigned[k].pass = "parameters"
        /\ assigned[k].raw.type = "str"
        /\ assigned[k].name \in obj.cls.path_properties }

\* the first place of the search order that exists, 0 if none does
FirstExisting(dk, path) ==
    LET found == { i \in DOMAIN Candidates(path) : Exists(dk, Candidates(path)[i]) }
    IN  IF found = {} THEN 0 ELSE CHOOSE i \in found : \A j \in found : i <= j

\* the k-th assignment raised FileNotFoundError and assigned nothing
NotFound(k) ==
    /\ assigned[k].raised.type = "FileNotFoundError"
    /\ assigned[k].value = None
    /\ assigned[k].attrs = AttrsBefore(k)
    /\ fac_pc = "raised"
    /\ obj.attrs = AttrsBefore(k)

\* the k-th assignment gave the property the value
Injected(k, path) ==
    /\ assigned[k].raised = NoError
    /\ assigned[k].value = Str(path)
    /\ DictGet(assigned[k].attrs, assigned[k].name) = Str(path)

C27_PathResolved ==
    \A k \in PathAssignments :
        LET raw == assigned[k].raw.val
            dk == assigned[k].disk
            first == FirstExisting(dk, raw)
            place == Candidates(raw)[first]
        IN  IF first = 0 THEN NotFound(k)
            ELSE IF IsAbs(raw)
                 THEN Injected(k, IF IsFile(dk, raw) THEN raw ELSE RealPath(dk, raw))
                 ELSE /\ Injected(k, IF first = 2 THEN place ELSE RealPath(dk, place))
                      /\ IsAbs(assigned[k].value.val)
                      /\ assigned[k].value # assigned[k].raw

\* the claim as stated: the value is the first existing place of the search
\* order, canonical or not, and never the string as configured
C27_NeverTheRawString ==
    \A k \in PathAssignments :
        LET raw == assigned[k].raw.val
            dk == assigned[k].disk
            first == FirstExisting(dk, raw)
            place == Candidates(raw)[first]
        IN  IF first = 0 THEN NotFound(k)
            ELSE /\ \/ Injected(k, place)
                    \/ Injected(k, RealPath(dk, place))
                 /\ assigned[k].value # assigned[k].raw

\* a relative string was resolved to the path under the application
\* directory, the configuration directory not having it and etc having it too
C27_Witness ==
    \E k \in PathAssignments :
        /\ ~IsAbs(assigned[k].raw.val)
        /\ FirstExisting(assigned[k].disk, assigned[k].raw.val) = 2
        /\ Exists(assigned[k].disk, Candidates(assigned[k].raw.val)[3])
        /\ Injected(k, Candidates(assigned[k].raw.val)[2])

(***************************************************************************)
(* C28: when something that is no directory is at the output path, or the  *)
(* directory cannot be made, _init_job_output raises an OSError and the    *)
(* configuration is not saved; the configuration is saved only while the   *)
(* output directory exists.                                                *)
(***************************************************************************)
C28_OutputDirectory ==
    /\ snapshot # None => target = "dir" /\ snapshot = Join(output_dir, <<106, 111, 98>>)
    /\ job_pc = "returned" => snapshot # None
    /\ (job_pc \notin {"none", "exists", "isdir"} /\ target = "file") =>
           job_pc = "raised" /\ raised.type = "OSError" /\ snapshot = None
    /\ (job_pc \notin {"none", "exists"} /\ target = "absent") =>
           job_pc = "raised" /\ raised.type = "OSError" /\ snapshot = None

\* a file was at the output path and the call raised
C28_Witness ==
    /\ job_pc = "raised"
    /\ target = "file"
    /\ raised = IOError(output_dir)
    /\ snapshot = None

(***************************************************************************)
(* C29: a publish() call that returned has invoked, once each and in the   *)
(* order of their registration, exactly the handlers subscribed to the     *)
(* event's name whose declared senders are absent or hold the class of the *)
(* sender or a class it derives from; a call still running or ended by a   *)
(* failing handler has invoked a prefix of them.                           *)
(***************************************************************************)
\* the senders of a declared event let the class of the sender through
DeclaredToAdmit(senders, sender) ==
    \/ ~senders.given
    \/ sender \in Range(senders.list)
    \/ "CorpusParser" \in Range(senders.list) /\ sender \in {"BookSampleParser", "PanParser"}

\* the event a handler declared under the name of a subscription
DeclaredEvent(sub) ==
    sub.handler.events[CHOOSE i \in DOMAIN sub.handler.events :
                           sub.handler.events[i].name = sub.name]

\* the handlers the last publish() call has to invoke, in order
Expected ==
    LET ev == published[Len(published)]
        subs == SelectSeq(subscriptions,
                          LAMBDA sub : /\ sub.name = ev.name
                                       /\ DeclaredToAdmit(DeclaredEvent(sub).senders, ev.sender))
    IN  [i \in DOMAIN subs |-> subs[i].handler]

\* the handlers the last publish() call has invoked, in order
Served ==
    LET of_call == SelectSeq(handled, LAMBDA h : h.call = Len(published))
    IN  [i \in DOMAIN of_call |-> of_call[i].handler]

C29_Delivery ==
    /\ bus_pc = "returned" => Served = Expected
    /\ bus_pc \in {"publish", "aborted"} =>
           /\ Len(Served) <= Len(Expected)
           /\ Served = SubSeq(Expected, 1, Len(Served))
    /\ bus_pc = "idle" => handled = <<>>

\* a call returned that invoked two handlers, the second one subscribed for
\* senders derived from CorpusParser, and left out a subscription
C29_Witness ==
    /\ bus_pc = "returned"
    /\ Len(Served) = 2
    /\ Served[1].id < Served[2].id
    /\ \E i \in DOMAIN subscriptions :
           /\ subscriptions[i].handler = Served[2]
           /\ subscriptions[i].name = published[Len(published)].name
           /\ subscriptions[i].senders.given
    /\ published[Len(published)].sender = "BookSampleParser"
    /\ Len(subscriptions) > 2

(***************************************************************************)
(* C30: when the onPairGenerated event of a pair is published, the         *)
(* onProgress events of its chunking, with the counts 0 to the number of   *)
(* its texts, have all been published since the event of the pair before,  *)
(* and both chunk sequences hold the chunks of all texts of their side;    *)
(* no pair is handed to the consumer whose event is not published.         *)
(***************************************************************************)
\* the positions of the onProgress events of the chunking that lie between
\* the onPairGenerated event of pair k and the one before it
ChunkingEvents(k) ==
    { i \in (IF k = 1 THEN 1 ELSE PairEvents[k - 1] + 1)..(PairEvents[k] - 1) :
        published[i].name = "onProgress" /\ published[i].sender = "SamplePair" }

C30_ConstructionPrecedesProvenance ==
    /\ Len(emitted) <= Len(PairEvents)
    /\ \A k \in DOMAIN emitted : published[PairEvents[k]].event.pair = emitted[k].pair
    /\ \A k \in DOMAIN PairEvents :
           LET pair == published[PairEvents[k]].event.pair
               total == Len(pair.a) + Len(pair.b)
           IN  /\ Cardinality(ChunkingEvents(k)) = total + 1
               /\ \A i, j \in ChunkingEvents(k) :
                      i < j => published[i].event.serial < published[j].event.serial
               /\ \A i \in ChunkingEvents(k) :
                      /\ published[i].event.serial \in 0..total
                      /\ published[i].event.events_total = total
                      /\ published[i].event.group_id = GenerateGroupId(<<pair.pair_id>>)
               /\ pair.chunks_a = ChunksOf(pair.a)
               /\ pair.chunks_b = ChunksOf(pair.b)

\* a pair with two texts on side b was emitted after another pair
C30_Witness ==
    \E k \in DOMAIN emitted :
        /\ k > 1
        /\ Len(emitted[k].pair.b) = 2
        /\ Cardinality(ChunkingEvents(k)) = Len(emitted[k].pair.a) + 3

(***************************************************************************)
(* C31: when an XML document of a dataset is not well-formed, the          *)
(* stratified and the category sampler skip it and go on: no exception     *)
(* leaves the iteration, and the documents are grouped as the well-formed  *)
(* documents alone would be.                                               *)
(***************************************************************************)
C31_MalformedSkipped ==
    (parser # "none" /\ corpus_path = "dir" /\ sampler_pc # "start") =>
        /\ iter_raised = NoError
        /\ parser = "WebisBuzzfeedAuthorshipCorpusParser" =>
               texts_by_portals = DiscardSmall(LoadPortals(WellFormed(dataset), <<>>))
        /\ parser = "WebisBuzzfeedCatCorpusParser" =>
               texts_by_class = LoadClasses(WellFormed(dataset), <<>>)

(***************************************************************************)
(* C32: when the corpus root does not exist, no parser publishes an event, *)
(* emits a pair or ends its iteration like one of an empty corpus; the     *)
(* iteration fails with an error.                                          *)
(***************************************************************************)
C32_MissingRootFatal ==
    corpus_path = "absent" =>
        /\ published = <<>>
        /\ emitted = <<>>
        /\ stops = 0

\* the list the running method appends to
LoadedList == IF load_kind = "outputs" THEN outputs ELSE aggregators

\* _configure_instance succeeds for the descriptor c and the capability t:
\* the class has the capability and every parameter names a property
Builds(c, t) ==
    LET o == NewInstance(LoadClass(c.name))
    IN  /\ IsInstance(o, t)
        /\ \A i \in DOMAIN c.parameters : HasProperty(o, c.parameters[i].key)

\* _configure_instance has returned the instance of the k-th descriptor
BuiltAt(k) ==
    \/ k < Len(load_list)
    \/ k = Len(load_list) /\ fac_pc = "returned" /\ returned # None

\* the names of the events the instance h is subscribed to, in the order of
\* registration
SubscribedNames(h) ==
    LET own == SelectSeq(subscriptions, LAMBDA sub : sub.handler = h)
    IN  [i \in 1..Len(own) |-> own[i].name]

(***************************************************************************)
(* C33: an instance is subscribed to events and appended to the outputs    *)
(* or aggregators list only after _configure_instance built it and it      *)
(* passed the assertion of its capability; it is subscribed to the events  *)
(* its descriptor declares; a descriptor that fails to build or fails the  *)
(* assertion has no subscription and no entry in the list; the list is in  *)
(* the order of the settings list.                                         *)
(***************************************************************************)
C33_LoadedAfterBuilt ==
    LET capability == IF load_kind = "outputs" THEN Output ELSE Aggregator
        held == Range(LoadedList) \cup Handlers(subscriptions)
    IN  /\ \A h \in held :
               /\ h.id \in 1..Len(load_list)
               /\ BuiltAt(h.id)
               /\ Builds(load_list[h.id], capability)
               /\ IsInstance(h.obj, capability)
               /\ h.obj.cls = LoadClass(load_list[h.id].name)
        /\ \A k \in 1..Len(load_list) :
               ~Builds(load_list[k], capability) => \A h \in held : h.id # k
        /\ \A h \in Range(LoadedList) :
               SubscribedNames(h) =
                   [i \in 1..Len(load_list[h.id].events) |-> load_list[h.id].events[i].name]
        /\ \A i, j \in 1..Len(LoadedList) : i < j => LoadedList[i].id < LoadedList[j].id
        /\ load_pc = "returned" => Len(LoadedList) = Len(load_list)

\* the first descriptor was subscribed and appended, the second failed to
\* build
C33_Witness ==
    /\ load_pc = "raised"
    /\ Len(load_list) = 2
    /\ Len(LoadedList) = 1
    /\ LoadedList[1].id = 1
    /\ SubscribedNames(LoadedList[1]) # <<>>
    /\ ~Builds(load_list[2], IF load_kind = "outputs" THEN Output ELSE Aggregator)

\* the portals with at least as many documents as the threshold
Surviving == { p \in Portals : GroupSize(p) >= MinPortalTexts }

\* the text of the document with path f
TextOfFile(f) == dataset[CHOOSE i \in 1..Len(dataset) : dataset[i].file_path = f].main_text

SidesFrom(e, c1, c2) ==
    /\ Len(e.pair.a) = Len(e.file_names_a)
    /\ Len(e.pair.b) = Len(e.file_names_b)
    /\ \A i \in 1..Len(e.file_names_a) :
           /\ GroupOfFile(e.file_names_a[i]) = c1
           /\ e.pair.a[i] = TextOfFile(e.file_names_a[i])
    /\ \A i \in 1..Len(e.file_names_b) :
           /\ GroupOfFile(e.file_names_b[i]) = c2
           /\ e.pair.b[i] = TextOfFile(e.file_names_b[i])

(***************************************************************************)
(* C35: the category sampler emits a pair for the classes c1 (side a) and  *)
(* c2 (side b) only if PairClass has a member named c1_c2; the label of    *)
(* the pair is that member, all texts of side a are of documents of class  *)
(* c1, all texts of side b of documents of class c2, and no document       *)
(* classified UNSPECIFIED is in any pair.                                  *)
(***************************************************************************)
C35_AllowListAndOrientation ==
    /\ \A k \in 1..Len(emitted) :
           LET e == emitted[k]
           IN  /\ \E m \in PairClass :
                      /\ m.name = e.cls1.name \o <<95>> \o e.cls2.name
                      /\ e.pair.cls = m
               /\ SidesFrom(e, e.cls1, e.cls2)
               /\ e.cls1 # TEXT_UNSPECIFIED
               /\ e.cls2 # TEXT_UNSPECIFIED
    /\ \A f \in FilesInPairs : GroupOfFile(f) # TEXT_UNSPECIFIED
    /\ \A i \in 1..Len(texts_by_class) : texts_by_class[i].key # TEXT_UNSPECIFIED

\* a corpus with an unclassified document was sampled to the end; LEFT
\* against RIGHT was emitted and RIGHT against LEFT was not
C35_Witness ==
    /\ sampler_pc = "done"
    /\ GroupSize(TEXT_UNSPECIFIED) >= 1
    /\ Len(texts_by_class) = 2
    /\ texts_by_class[1].key = RIGHT
    /\ texts_by_class[2].key = LEFT
    /\ \E k \in 1..Len(emitted) :
           /\ emitted[k].cls1 = LEFT
           /\ emitted[k].cls2 = RIGHT
           /\ Len(emitted[k].pair.a) >= 1
    /\ \A k \in 1..Len(emitted) : ~(emitted[k].cls1 = RIGHT /\ emitted[k].cls2 = LEFT)

\* the paths of the documents of class c at the drawn indices, those without
\* a <mainText> left out
PathsDrawn(c, drawn) ==
    LET texts == DictGet(texts_by_class, c)
        with_text == SelectSeq(drawn, LAMBDA idx : texts[idx + 1][2].mainText # None)
    IN  [i \in 1..Len(with_text) |-> texts[with_text[i] + 1][1]]

C37_DrawLoopExits == (sampler_pc = "loop") ~> (sampler_pc = "for")

(***************************************************************************)
(* C38: once next() of the BookSampleParser iterator has raised            *)
(* StopIteration, no further step emits a pair or publishes an onProgress  *)
(* or onPairGenerated event; every further next() raises StopIteration.    *)
(***************************************************************************)
C38_ExhaustedInert ==
    [][stops >= 1 =>
           /\ published' = published
           /\ emitted' = emitted
           /\ book_pc' \in {"idle", "text"}]_vars

(***************************************************************************)
(* C39: a value of the rc file is handed to set_property as it is, also    *)
(* for a path property: the property then holds the raw value.  Only an    *)
(* inline parameter is handed over with a value other than the configured  *)
(* one, and only a string for a path property, as resolved on the file     *)
(* system.                                                                 *)
(***************************************************************************)
C39_RcFileVerbatim ==
    \A i \in DOMAIN assigned :
        LET e == assigned[i]
        IN  /\ e.pass = "rc_file" =>
                   /\ e.value = e.raw
                   /\ e.disk = NoDisk
                   /\ e.raised = NoError => DictGet(e.attrs, e.name) = e.raw
            /\ (e.pass = "parameters" /\ e.raised = NoError /\ e.value # e.raw) =>
                   /\ e.raw.type = "str"
                   /\ e.name \in obj.cls.path_properties
                   /\ e.value = Str(ResolveRelativePath(e.disk, e.raw.val).path)

\* the relative path "x" was assigned to the path property q as it is from
\* the rc file and then, given inline, as another, resolved path
C39_Witness ==
    \E i, j \in DOMAIN assigned :
        /\ i < j
        /\ assigned[i].pass = "rc_file"
        /\ assigned[j].pass = "parameters"
        /\ assigned[i].name = <<113>>
        /\ assigned[j].name = <<113>>
        /\ assigned[i].raw = Str(<<120>>)
        /\ assigned[j].raw = Str(<<120>>)
        /\ assigned[i].raised = NoError
        /\ assigned[j].raised = NoError
        /\ assigned[i].value = Str(<<120>>)
        /\ assigned[j].value # Str(<<120>>)

====
